---- MODULE Spec2Model ----
(***************************************************************************)
(* Model of the media downloader (packages/core/src/downloader) and of the *)
(* batch orchestrator (packages/core/src/orchestrator) of twmd.            *)
(*                                                                         *)
(* JavaScript runs the workers of one downloadMediaBatch call on a single  *)
(* thread: code between two awaits is atomic, and every await is a point   *)
(* where another worker (or the caller) may run.  One action of the model  *)
(* is the code from the completion of one await to the start of the next.  *)
(***************************************************************************)
EXTENDS Integers, Sequences, FiniteSets, TLC

\* ---------------------------------------------------------------- bounds
MaxItems == 2          \* longest item list handed to downloadMediaBatch
MaxConcurrency == 2    \* largest concurrency input
MaxRetryCount == 1     \* largest retryCount input
MaxCalls == 2          \* downloadMediaBatch calls of a caller other than runBatchJob
MaxUsers == 2          \* longest users list handed to runBatchJob
MaxUserRetryCount == 1 \* largest userRetryCount input
MaxFound == 1          \* longest list fetchUserMedia returns to runBatchJob
MaxTweets == 2         \* largest maxTweets input of fetchUserMedia
MaxPage == 2           \* most tweets the server puts in one page
MaxAuthTriples == 7    \* most auth triples a session yields
MaxFetches == 1        \* fetchUserMedia calls on one scraper
MaxRequests == 3       \* HTTP requests the GUI server receives
MaxFailed == 1         \* largest failedUsers and failed of a JobResult handed to main()
MaxLogins == 2         \* loginWithCookies calls that save a session
MaxCookies == 2        \* longest list handed to normalizeCookiesForTwitterRequests
MaxFlags == 4          \* feature flags the server may ask for beyond the caller's
ManyTweets == 31       \* a maxTweets input that 30 pages of one tweet do not exhaust
MaxCloses == 2         \* close() calls on a scraper between two initialize calls

Workers == 1..MaxConcurrency
Positions == 1..MaxItems

\* ------------------------------------------------------- strings as chars
Whitespace == {" ", "\t", "\n"}

RECURSIVE TrimStart(_)
TrimStart(s) ==
    IF s = <<>> THEN s
    ELSE IF Head(s) \in Whitespace THEN TrimStart(Tail(s)) ELSE s

RECURSIVE TrimEnd(_)
TrimEnd(s) ==
    IF s = <<>> THEN s
    ELSE IF s[Len(s)] \in Whitespace THEN TrimEnd(SubSeq(s, 1, Len(s) - 1)) ELSE s

\* String.prototype.trim
Trim(s) == TrimEnd(TrimStart(s))

ToLowerChar(c) ==
    IF c = "A" THEN "a" ELSE IF c = "B" THEN "b"
    ELSE IF c = "AUTH_TOKEN" THEN "auth_token" ELSE IF c = "Ct0" THEN "ct0"
    ELSE IF c = "X.COM" THEN "x.com" ELSE c

\* String.prototype.toLowerCase
ToLowerCase(s) == [i \in 1..Len(s) |-> ToLowerChar(s[i])]

\* the characters of /[<>:"/\\|?*\u0000-\u001F]/ ("\t" stands for the
\* control characters)
WINDOWS_FORBIDDEN == {"<", ">", ":", "\"", "/", "\\", "|", "?", "*", "\t"}

UnknownPart == <<"u", "n", "k", "n", "o", "w", "n">>

sanitizePathPart(input) ==
    LET replaced == [i \in 1..Len(input) |->
                        IF input[i] \in WINDOWS_FORBIDDEN THEN "_" ELSE input[i]]
        trimmed == Trim(replaced)
    IN  IF trimmed = <<>> THEN UnknownPart ELSE trimmed

\* ------------------------------------------------------------ media items
\* A url is kept as what `new URL(url)` yields: whether it parses, its
\* origin+pathname, the extname of its pathname and its ?format= parameter.
UrlOne == [parses |-> TRUE, originPath |-> "https://p/one", ext |-> <<"j", "p", "g">>,
           format |-> <<>>, search |-> ""]
UrlTwo == [parses |-> TRUE, originPath |-> "https://p/two", ext |-> <<"j", "p", "g">>,
           format |-> <<>>, search |-> ""]

MediaItem(username, tweetId, id, kind, url) ==
    [username |-> username, tweetId |-> tweetId, id |-> id, kind |-> kind, url |-> url]

\* two items of one tweet that share the target file name but not the url
ItemUniverse ==
    { MediaItem(<<"a">>, <<"7">>, <<"1">>, "image", UrlOne),
      MediaItem(<<"a", " ">>, <<"7">>, <<"1">>, "image", UrlTwo) }

RECURSIVE SeqsUpTo(_, _)
SeqsUpTo(S, n) ==
    IF n = 0 THEN {<<>>}
    ELSE LET shorter == SeqsUpTo(S, n - 1)
         IN  shorter \cup {Append(s, x) : s \in {t \in shorter : Len(t) = n - 1}, x \in S}

ItemLists == SeqsUpTo(ItemUniverse, MaxItems)

normalizeMediaUrlForCacheKey(rawUrl) ==
    IF rawUrl.parses THEN <<rawUrl.originPath>> ELSE <<rawUrl.originPath, rawUrl.search>>

buildDownloadedMediaKey(item) ==
    << ToLowerCase(Trim(item.username)), Trim(item.tweetId), item.kind,
       normalizeMediaUrlForCacheKey(item.url) >>

LowerAlnum == {"a", "b", "f", "g", "i", "j", "m", "n", "p", "1", "4", "7", "8"}

\* /^[a-z0-9]+$/.test(f)
IsFormatWord(f) == f # <<>> /\ \A i \in 1..Len(f) : f[i] \in LowerAlnum

\* <<>> stands for undefined
extensionFromUrl(url) ==
    IF ~url.parses THEN <<>>
    ELSE IF IsFormatWord(ToLowerCase(Trim(url.format))) THEN ToLowerCase(Trim(url.format))
    ELSE ToLowerCase(url.ext)

defaultExtension(kind) ==
    IF kind = "image" THEN <<"j", "p", "g">>
    ELSE IF kind = "gif" THEN <<"g", "i", "f">>
    ELSE <<"m", "p", "4">>

buildMediaFilename(item) ==
    LET fromUrl == extensionFromUrl(item.url)
        ext == IF fromUrl = <<>> THEN defaultExtension(item.kind) ELSE fromUrl
    IN  sanitizePathPart(item.tweetId) \o <<"_">> \o sanitizePathPart(item.id) \o <<".">> \o ext

\* join(outputDir, sanitizePathPart(item.username), fileName), as segments
\* below the one outputDir
TargetPath(item) == <<sanitizePathPart(item.username), buildMediaFilename(item)>>

\* ---------------------------------------------------------------- errors
\* What a caught value of downloadWithRetries carries.
HttpError(status) ==
    [status |-> <<status>>, message |-> "HTTP <status> for <url>", code |-> <<>>, attempts |-> 0]
FetchFailed == [status |-> <<>>, message |-> "fetch failed", code |-> <<>>, attempts |-> 0]
DiskFull ==
    [status |-> <<>>, message |-> "ENOSPC: no space left on device, write",
     code |-> <<"ENOSPC">>, attempts |-> 0]

HttpErrorStatuses == {404, 429, 500}
FetchErrors == {HttpError(s) : s \in HttpErrorStatuses} \cup {FetchFailed}
WriteErrors == {DiskFull}

\* message.toLowerCase().includes(word) for the messages above
MessageIncludes(message, word) ==
    message = "fetch failed" /\ word = "fetch"

shouldRetryAnyStatus(error) ==
    IF error.status # <<>>
    THEN TRUE
    ELSE \/ MessageIncludes(error.message, "network")
         \/ MessageIncludes(error.message, "timeout")
         \/ MessageIncludes(error.message, "fetch")

shouldRetry(error) ==
    IF error.status # <<>>
    THEN error.status[1] = 429 \/ error.status[1] >= 500
    ELSE \/ MessageIncludes(error.message, "network")
         \/ MessageIncludes(error.message, "timeout")
         \/ MessageIncludes(error.message, "fetch")

\* <<>> stands for undefined, <<"HTTP", n>> for `HTTP_${n}`
toFailureCode(error) ==
    IF error.code # <<>> THEN error.code
    ELSE IF error.status # <<>> THEN <<"HTTP", error.status[1]>>
    ELSE <<>>

toFailureAttemptsFallback(error, fallback) == fallback

toFailureAttempts(error, fallback) ==
    IF error.attempts > 0 THEN error.attempts ELSE fallback

\* ------------------------------------------------------------ ledger file
DOWNLOADED_MEDIA_CACHE_VERSION == 1

\* the content of <outputDir>/.twmd-cache/downloaded-media.json
LedgerAbsent == [readable |-> FALSE, version |-> 0, mediaKeys |-> {}]
LedgerOf(keys) ==
    [readable |-> TRUE, version |-> DOWNLOADED_MEDIA_CACHE_VERSION, mediaKeys |-> keys]

\* a load that never finds a key
loadDownloadedMediaCacheEmpty(file) == {}

\* the Set that loadDownloadedMediaCache returns; <<>> is the empty string
loadDownloadedMediaCache(file) ==
    IF ~file.readable THEN {}
    ELSE IF file.version # DOWNLOADED_MEDIA_CACHE_VERSION THEN {}
    ELSE {k \in file.mediaKeys : k # <<>>}

\* ------------------------------------------------------------------ state
VARIABLES
    ledgerFile,    \* the ledger file on disk
    files,         \* the files under outputDir: target path and the body written to it
    dlpc,          \* position of downloadMediaBatch
    items,         \* input.items of the current call
    concurrency,   \* input.concurrency of the current call
    retryCount,    \* Math.max(0, input.retryCount) of the current call
    queue,         \* the shared queue, as positions of `items`
    result,        \* the DownloadMediaBatchResult under construction
    mediaKeys,     \* downloadedMediaCache.mediaKeys
    payload,       \* payload.mediaKeys of persistDownloadedMediaCache
    wpc,           \* per worker: the await it is suspended at
    wcur,          \* per worker: position of the item it holds (0: none)
    wattempt,      \* per worker: `attempt` of downloadWithRetries
    woutcome,      \* per worker: the value processOne is returning
    calls,         \* number of downloadMediaBatch calls so far
    \* history, read by the properties only
    whttp,         \* per worker: fetch() calls issued for the item it holds
    ended,         \* per position: how the item ended
    werror,        \* per worker: the last value caught for the item it holds
    late,          \* a worker took / finished an item or added a key
                   \* after persistDownloadedMediaCache was entered
    writebacks,    \* times persistDownloadedMediaCache was entered in this call
    loaded,        \* the keys loadDownloadedMediaCache returned to this call
    persisted,     \* the rename of persistDownloadedMediaCache succeeded in this call
    rerun          \* the call repeats the batch of the preceding call, which
                   \* returned with every item downloaded

dlvars == <<ledgerFile, files, dlpc, items, concurrency, retryCount, queue, result,
            mediaKeys, payload, wpc, wcur, wattempt, woutcome, calls,
            whttp, ended, werror, late, writebacks, loaded, persisted, rerun>>

VARIABLES
    jpc,            \* position of runBatchJob
    users,          \* input.users
    userRetryCount, \* Math.max(0, input.userRetryCount)
    jobConcurrency, \* input.concurrency
    jobRetryCount,  \* input.retryCount
    userIndex,      \* position in input.users of the handle being processed
    attempt,        \* `attempt` of the retry loop of the handle
    mediaItems,     \* what fetchUserMedia returned to the current attempt
    jresult,        \* the JobResult under construction
    scraper,        \* "none", "initialized" or "closed"
    events,         \* the events yielded so far, each with the position of
                    \* the handle whose loop iteration yielded it (0: none)
    store,          \* what input.store holds: a SessionData, NoSession or Unreadable
    engine,         \* input.engine, "none" when absent
    scraperImpl,    \* the scraper runBatchJob holds: "none", "injected",
                    \* "graphql" or "playwright"
    session         \* the session given to scraper.initialize (NoSession: none yet)

jobvars == <<jpc, users, userRetryCount, jobConcurrency, jobRetryCount, userIndex, attempt,
             mediaItems, jresult, scraper, events, store, engine, scraperImpl, session>>

VARIABLES
    spc,        \* position of fetchUserMedia: the request it awaits, or how it ended
    simpl,      \* the class of the scraper object: "graphql" or "playwright"
    server,     \* what the platform serves while the scraper lives
    client,     \* the GraphqlApiClient: its auth triples, bearer tokens, query ids
    sinput,     \* the FetchUserMediaInput of the current call
    req,        \* the locals of requestGraphql and requestJsonFromBases
    pag,        \* the locals of fetchViaGraphql / fetchViaV11
    sresult,    \* the list fetchUserMedia returned
    fetches,    \* number of fetchUserMedia calls so far
    shist,      \* history, read by the properties only
    pw          \* the locals of PlaywrightMediaScraper.fetchUserMedia and collectFromUrl

scvars == <<spc, simpl, server, client, sinput, req, pag, sresult, fetches, shist, pw>>

VARIABLES
    runningJob, \* startGuiServer's runningJob: 0 for null, else the pid of a child
    handlers,   \* every HTTP request's handler: its position and the status it answered
    children,   \* pids of the CLI child processes that are alive
    signalled,  \* pids that were sent SIGINT
    spawned     \* number of children spawned so far

guivars == <<runningJob, handlers, children, signalled, spawned>>

VARIABLES
    command,    \* process.argv[2] of the CLI
    cliPc,      \* position of main()
    cliError,     \* the error main() has caught
    runResult,  \* the JobResult runDownload returned
    exitCode    \* process.exitCode when main() has settled (unset exits with 0)

clivars == <<command, cliPc, cliError, runResult, exitCode>>

VARIABLES
    sessionFile, \* what is stored at the session store's path (NoFile: nothing)
    clock,      \* the number of nowIso() readings so far
    authOp,     \* the last operation on the store or login, with how it ended
    expected    \* history: what the last save or clear left in the store

authvars == <<sessionFile, clock, authOp, expected>>

VARIABLES
    applied     \* the last application of a pure function: its input and output

fnvars == <<applied>>

restvars == <<authvars, fnvars>>

appvars == <<clivars, restvars>>

vars == <<dlvars, jobvars, scvars, guivars, appvars>>

NoOutcome == [status |-> "none", failure |-> <<>>]
NoError == [status |-> <<>>, message |-> "", code |-> <<>>, attempts |-> 0]
EmptyResult(n) ==
    [total |-> n, downloaded |-> 0, failed |-> 0, skipped |-> 0, failureDetails |-> <<>>]

\* fileExists: access(path) resolves
fileExists(path) == \E f \in files : f.path = path

\* the files after writeFile(targetPath, buffer), the buffer being the body
\* the server sent for the url
writeFile(targetPath, url) ==
    {f \in files : f.path # targetPath} \cup {[path |-> targetPath, body |-> url]}

WritebackStarted == dlpc \in {"persist_mkdir", "persist_write", "persist_rename",
                              "returned", "thrown"}


DlInit ==
    /\ ledgerFile = LedgerAbsent
    /\ files = {}
    /\ dlpc = "idle"
    /\ items = <<>>
    /\ concurrency = 1
    /\ retryCount = 0
    /\ queue = <<>>
    /\ result = EmptyResult(0)
    /\ mediaKeys = {}
    /\ payload = {}
    /\ wpc = [w \in Workers |-> "idle"]
    /\ wcur = [w \in Workers |-> 0]
    /\ wattempt = [w \in Workers |-> 0]
    /\ woutcome = [w \in Workers |-> NoOutcome]
    /\ calls = 0
    /\ whttp = [w \in Workers |-> 0]
    /\ ended = [p \in Positions |-> "none"]
    /\ werror = [w \in Workers |-> NoError]
    /\ late = FALSE
    /\ writebacks = 0
    /\ loaded = {}
    /\ persisted = FALSE
    /\ rerun = FALSE

\* store.load() resolves to null
NoSession == [cookies |-> <<>>, valid |-> FALSE, kind |-> "null"]
\* the session file exists and cannot be read or parsed
Unreadable == [cookies |-> <<>>, valid |-> FALSE, kind |-> "unreadable"]
SessionData(cookies, valid) == [cookies |-> cookies, valid |-> valid, kind |-> "session"]

\* the cookies of a stored session, by name
StoredSessions == {SessionData(<<>>, TRUE), SessionData(<<"auth_token", "ct0">>, TRUE)}

Stores == {NoSession, Unreadable} \cup StoredSessions

Engines == {"none", "graphql", "playwright"}

buildAnonymousSession == SessionData(<<>>, FALSE)

\* createMediaScraper(input): which implementation it constructs
createMediaScraper(inputEngine) ==
    LET chosen == IF inputEngine = "none" THEN "graphql" ELSE inputEngine
    IN  IF chosen = "graphql" THEN "graphql" ELSE "playwright"

\* buildGraphqlAuthBundle throws unless auth_token and ct0 are among the cookies
GraphqlRejects(s) ==
    ~(\E i, j \in 1..Len(s.cookies) : s.cookies[i] = "auth_token" /\ s.cookies[j] = "ct0")

EmptyJobResult(n) ==
    [totalUsers |-> n, succeededUsers |-> 0, failedUsers |-> 0, totalMedia |-> 0,
     downloaded |-> 0, failed |-> 0, skipped |-> 0, failureDetails |-> <<>>]

JobInit ==
    /\ jpc = "idle"
    /\ users = <<>>
    /\ userRetryCount = 0
    /\ jobConcurrency = 1
    /\ jobRetryCount = 0
    /\ userIndex = 0
    /\ attempt = 0
    /\ mediaItems = <<>>
    /\ jresult = EmptyJobResult(0)
    /\ scraper = "none"
    /\ events = <<>>
    /\ store = NoSession
    /\ engine = "none"
    /\ scraperImpl = "none"
    /\ session = NoSession

Min(a, b) == IF a < b THEN a ELSE b
Max(a, b) == IF a > b THEN a ELSE b

WorkersStopped == \A w \in Workers : wpc[w] \in {"idle", "done", "rejected"}

EnterProcessOneWithoutLedger(p, keys) == "mkdir"

\* The synchronous head of processOne for the item at position p, given the
\* keys known at that moment: either it returns skipped at once or it
\* suspends in mkdir.
EnterProcessOne(p, keys) ==
    IF buildDownloadedMediaKey(items[p]) \in keys THEN "settle" ELSE "mkdir"

\* downloadMediaBatch up to its first await (loadDownloadedMediaCache), or
\* to its return when the item list is empty.
downloadMediaBatch(inputItems, inputConcurrency, inputRetryCount) ==
    /\ dlpc \in {"idle", "returned", "thrown"}
    /\ WorkersStopped
    /\ calls' = calls + 1
    /\ items' = inputItems
    /\ concurrency' = Max(1, inputConcurrency)
    /\ retryCount' = Max(0, inputRetryCount)
    /\ queue' = [i \in 1..Len(inputItems) |-> i]
    /\ result' = EmptyResult(Len(inputItems))
    /\ dlpc' = IF Len(inputItems) = 0 THEN "returned" ELSE "loading"
    /\ rerun' = (/\ dlpc = "returned"
                 /\ inputItems = items
                 /\ Len(items) > 0
                 /\ result.downloaded = Len(items))
    /\ mediaKeys' = {}
    /\ payload' = {}
    /\ wpc' = [w \in Workers |-> "idle"]
    /\ wcur' = [w \in Workers |-> 0]
    /\ wattempt' = [w \in Workers |-> 0]
    /\ woutcome' = [w \in Workers |-> NoOutcome]
    /\ whttp' = [w \in Workers |-> 0]
    /\ ended' = [p \in Positions |-> "none"]
    /\ werror' = [w \in Workers |-> NoError]
    /\ late' = FALSE
    /\ writebacks' = 0
    /\ loaded' = {}
    /\ persisted' = FALSE
    /\ UNCHANGED <<ledgerFile, files>>

\* loadDownloadedMediaCache completes; the workers are created one after the
\* other, each running synchronously to its first await.
StartWorkers ==
    /\ dlpc = "loading"
    /\ LET fromFile == loadDownloadedMediaCache(ledgerFile)
           workerCount == Min(concurrency, Len(queue))
       IN  /\ mediaKeys' = fromFile
           /\ loaded' = fromFile
           /\ queue' = SubSeq(queue, workerCount + 1, Len(queue))
           /\ wcur' = [w \in Workers |-> IF w <= workerCount THEN queue[w] ELSE 0]
           /\ wpc' = [w \in Workers |->
                        IF w <= workerCount THEN EnterProcessOne(queue[w], fromFile) ELSE "idle"]
           /\ woutcome' = [w \in Workers |->
                        IF w <= workerCount /\ EnterProcessOne(queue[w], fromFile) = "settle"
                        THEN [status |-> "skipped", failure |-> <<>>] ELSE NoOutcome]
           /\ ended' = [p \in Positions |->
                        IF /\ \E w \in 1..workerCount : queue[w] = p
                           /\ EnterProcessOne(p, fromFile) = "settle"
                        THEN "skipped_ledger" ELSE ended[p]]
    /\ dlpc' = "running"
    /\ UNCHANGED <<ledgerFile, files, items, concurrency, retryCount, result, payload,
                   wattempt, calls, whttp, werror, late, writebacks, persisted, rerun>>
    /\ UNCHANGED <<jobvars, scvars, guivars, appvars>>

Skipped == [status |-> "skipped", failure |-> <<>>]
Downloaded == [status |-> "downloaded", failure |-> <<>>]

\* the FailureDetail built in the catch of processOne
FailureDetail(item, error) ==
    [scope |-> "media",
     message |-> error.message,
     code |-> toFailureCode(error),
     media |-> [tweetId |-> item.tweetId, mediaId |-> item.id, targetPath |-> TargetPath(item)],
     attempts |-> toFailureAttempts(error, retryCount + 1)]

CountWithoutSkipped(r, outcome) ==
    IF outcome.status = "downloaded" THEN [r EXCEPT !.downloaded = @ + 1]
    ELSE IF outcome.status = "failed"
         THEN [r EXCEPT !.failed = @ + 1,
                        !.failureDetails = IF outcome.failure # <<>>
                                           THEN Append(@, outcome.failure[1]) ELSE @]
    ELSE r

\* the tail of the loop body of runWorker: count what processOne returned
Count(r, outcome) ==
    IF outcome.status = "downloaded" THEN [r EXCEPT !.downloaded = @ + 1]
    ELSE IF outcome.status = "failed"
         THEN [r EXCEPT !.failed = @ + 1,
                        !.failureDetails = IF outcome.failure # <<>>
                                           THEN Append(@, outcome.failure[1]) ELSE @]
    ELSE [r EXCEPT !.skipped = @ + 1]

\* a shift that leaves the item in the queue
ShiftedKeepingHead(q) == q

\* the queue after queue.shift()
Shifted(q) == Tail(q)

\* `await processOne` resumes in runWorker: count the outcome, test the
\* queue, take the next item and run processOne to its first await.
WorkerSettle(w) ==
    /\ wpc[w] = "settle"
    /\ result' = Count(result, woutcome[w])
    /\ late' = (late \/ WritebackStarted)
    /\ IF queue = <<>>
       THEN /\ wpc' = [wpc EXCEPT ![w] = "done"]
            /\ wcur' = [wcur EXCEPT ![w] = 0]
            /\ woutcome' = [woutcome EXCEPT ![w] = NoOutcome]
            /\ UNCHANGED <<queue, ended>>
       ELSE LET p == Head(queue)
                next == EnterProcessOne(p, mediaKeys)
            IN  /\ queue' = Shifted(queue)
                /\ wcur' = [wcur EXCEPT ![w] = p]
                /\ wpc' = [wpc EXCEPT ![w] = next]
                /\ woutcome' = [woutcome EXCEPT ![w] =
                                    IF next = "settle" THEN Skipped ELSE NoOutcome]
                /\ ended' = [ended EXCEPT ![p] =
                                    IF next = "settle" THEN "skipped_ledger" ELSE @]
    /\ whttp' = [whttp EXCEPT ![w] = 0]
    /\ werror' = [werror EXCEPT ![w] = NoError]
    /\ UNCHANGED <<ledgerFile, files, dlpc, items, concurrency, retryCount, mediaKeys,
                   payload, wattempt, calls, writebacks, loaded, persisted, rerun>>
    /\ UNCHANGED <<jobvars, scvars, guivars, appvars>>

\* `await mkdir(userDir)` completes.  It is outside the try of processOne:
\* when it rejects, processOne and with it runWorker reject.
WorkerMkdir(w) ==
    /\ wpc[w] = "mkdir"
    /\ \E ok \in BOOLEAN :
        IF ok
        THEN /\ wpc' = [wpc EXCEPT ![w] = "exists"]
             /\ UNCHANGED <<ended, late>>
        ELSE /\ wpc' = [wpc EXCEPT ![w] = "rejected"]
             /\ ended' = [ended EXCEPT ![wcur[w]] = "threw"]
             /\ late' = (late \/ WritebackStarted)
    /\ UNCHANGED <<ledgerFile, files, dlpc, items, concurrency, retryCount, queue, result,
                   mediaKeys, payload, wcur, wattempt, woutcome, calls, whttp, werror,
                   writebacks, loaded, persisted, rerun>>
    /\ UNCHANGED <<jobvars, scvars, guivars, appvars>>

\* `await fileExists(filePath)` completes: skip an item whose file is there,
\* otherwise enter downloadWithRetries and issue the first fetch.
WorkerFileExists(w) ==
    /\ wpc[w] = "exists"
    /\ LET p == wcur[w]
       IN  IF fileExists(TargetPath(items[p]))
           THEN /\ mediaKeys' = mediaKeys \cup {buildDownloadedMediaKey(items[p])}
                /\ woutcome' = [woutcome EXCEPT ![w] = Skipped]
                /\ wpc' = [wpc EXCEPT ![w] = "settle"]
                /\ ended' = [ended EXCEPT ![p] = "skipped_disk"]
                /\ late' = (late \/ WritebackStarted)
                /\ UNCHANGED <<wattempt, whttp>>
           ELSE /\ wattempt' = [wattempt EXCEPT ![w] = 0]
                /\ whttp' = [whttp EXCEPT ![w] = @ + 1]
                /\ wpc' = [wpc EXCEPT ![w] = "fetch"]
                /\ UNCHANGED <<mediaKeys, woutcome, ended, late>>
    /\ UNCHANGED <<ledgerFile, files, dlpc, items, concurrency, retryCount, queue, result,
                   payload, wcur, calls, werror, writebacks, loaded, persisted, rerun>>
    /\ UNCHANGED <<jobvars, scvars, guivars, appvars>>

\* the catch of downloadWithRetries for worker w, followed, when it
\* rethrows, by the catch of processOne
Caught(w, error) ==
    LET p == wcur[w]
        performedAttempts == wattempt[w] + 1
        canRetry == shouldRetry(error)
        thrown == [error EXCEPT !.attempts = performedAttempts]
    IN  IF ~canRetry \/ wattempt[w] = retryCount
        THEN /\ werror' = [werror EXCEPT ![w] = thrown]
             /\ woutcome' = [woutcome EXCEPT ![w] =
                    [status |-> "failed", failure |-> <<FailureDetail(items[p], thrown)>>]]
             /\ wpc' = [wpc EXCEPT ![w] = "settle"]
             /\ ended' = [ended EXCEPT ![p] = "failed"]
             /\ late' = (late \/ WritebackStarted)
        ELSE /\ werror' = [werror EXCEPT ![w] = error]
             /\ wpc' = [wpc EXCEPT ![w] = "backoff"]
             /\ UNCHANGED <<woutcome, ended, late>>

\* `await fetch(item.url)` completes
WorkerFetch(w) ==
    /\ wpc[w] = "fetch"
    /\ \/ /\ wpc' = [wpc EXCEPT ![w] = "write"]
          /\ UNCHANGED <<woutcome, ended, late, werror>>
       \/ \E error \in FetchErrors : Caught(w, error)
    /\ UNCHANGED <<ledgerFile, files, dlpc, items, concurrency, retryCount, queue, result,
                   mediaKeys, payload, wcur, wattempt, calls, whttp, writebacks, loaded, persisted, rerun>>
    /\ UNCHANGED <<jobvars, scvars, guivars, appvars>>

\* `await response.arrayBuffer()` and `await writeFile(targetPath, buffer)`
\* complete
WorkerWrite(w) ==
    /\ wpc[w] = "write"
    /\ \/ /\ files' = writeFile(TargetPath(items[wcur[w]]), items[wcur[w]].url)
          /\ wpc' = [wpc EXCEPT ![w] = "record"]
          /\ UNCHANGED <<woutcome, ended, late, werror>>
       \/ /\ \E error \in WriteErrors : Caught(w, error)
          /\ UNCHANGED files
    /\ UNCHANGED <<ledgerFile, dlpc, items, concurrency, retryCount, queue, result,
                   mediaKeys, payload, wcur, wattempt, calls, whttp, writebacks, loaded, persisted, rerun>>
    /\ UNCHANGED <<jobvars, scvars, guivars, appvars>>

WorkerRecordWithoutKey(w) ==
    /\ wpc[w] = "record"
    /\ woutcome' = [woutcome EXCEPT ![w] = Downloaded]
    /\ wpc' = [wpc EXCEPT ![w] = "settle"]
    /\ ended' = [ended EXCEPT ![wcur[w]] = "downloaded"]
    /\ late' = (late \/ WritebackStarted)
    /\ UNCHANGED <<ledgerFile, files, dlpc, items, concurrency, retryCount, queue, result,
                   mediaKeys, payload, wcur, wattempt, calls, whttp, werror, writebacks,
                   loaded, persisted, rerun>>
    /\ UNCHANGED <<jobvars, scvars, guivars, appvars>>

\* `await downloadWithRetries` resumes in processOne after a success
WorkerRecord(w) ==
    /\ wpc[w] = "record"
    /\ mediaKeys' = mediaKeys \cup {buildDownloadedMediaKey(items[wcur[w]])}
    /\ woutcome' = [woutcome EXCEPT ![w] = Downloaded]
    /\ wpc' = [wpc EXCEPT ![w] = "settle"]
    /\ ended' = [ended EXCEPT ![wcur[w]] = "downloaded"]
    /\ late' = (late \/ WritebackStarted)
    /\ UNCHANGED <<ledgerFile, files, dlpc, items, concurrency, retryCount, queue, result,
                   payload, wcur, wattempt, calls, whttp, werror, writebacks, loaded, persisted, rerun>>
    /\ UNCHANGED <<jobvars, scvars, guivars, appvars>>

\* `await sleep(backoff)` completes: the next attempt issues its fetch
WorkerBackoff(w) ==
    /\ wpc[w] = "backoff"
    /\ wattempt' = [wattempt EXCEPT ![w] = @ + 1]
    /\ whttp' = [whttp EXCEPT ![w] = @ + 1]
    /\ wpc' = [wpc EXCEPT ![w] = "fetch"]
    /\ UNCHANGED <<ledgerFile, files, dlpc, items, concurrency, retryCount, queue, result,
                   mediaKeys, payload, wcur, woutcome, calls, ended, werror, late,
                   writebacks, loaded, persisted, rerun>>
    /\ UNCHANGED <<jobvars, scvars, guivars, appvars>>

\* `await Promise.all(workers)` settles: fulfilled once every worker has
\* returned, rejected as soon as one worker has rejected.  The finally block
\* enters persistDownloadedMediaCache, which copies the keys into its
\* payload before its first await.
PromiseAll ==
    /\ dlpc = "running"
    /\ \/ \A w \in Workers : wpc[w] \in {"idle", "done"}
       \/ \E w \in Workers : wpc[w] = "rejected"
    /\ payload' = mediaKeys
    /\ writebacks' = writebacks + 1
    /\ dlpc' = "persist_mkdir"
    /\ UNCHANGED <<ledgerFile, files, items, concurrency, retryCount, queue, result,
                   mediaKeys, wpc, wcur, wattempt, woutcome, calls, whttp, ended, werror,
                   late, loaded, persisted, rerun>>
    /\ UNCHANGED <<jobvars, scvars, guivars, appvars>>

\* where downloadMediaBatch ends after the finally block
AfterFinally == IF \E w \in Workers : wpc[w] = "rejected" THEN "thrown" ELSE "returned"

\* `await mkdir(directory)` of persistDownloadedMediaCache completes; a
\* rejection is swallowed by the empty catch
PersistMkdir ==
    /\ dlpc = "persist_mkdir"
    /\ \/ dlpc' = "persist_write"
       \/ dlpc' = AfterFinally
    /\ UNCHANGED <<ledgerFile, files, items, concurrency, retryCount, queue, result,
                   mediaKeys, payload, wpc, wcur, wattempt, woutcome, calls, whttp, ended,
                   werror, late, writebacks, loaded, persisted, rerun>>
    /\ UNCHANGED <<jobvars, scvars, guivars, appvars>>

\* `await writeFile(tempPath, ...)` completes
PersistWriteTemp ==
    /\ dlpc = "persist_write"
    /\ \/ dlpc' = "persist_rename"
       \/ dlpc' = AfterFinally
    /\ UNCHANGED <<ledgerFile, files, items, concurrency, retryCount, queue, result,
                   mediaKeys, payload, wpc, wcur, wattempt, woutcome, calls, whttp, ended,
                   werror, late, writebacks, loaded, persisted, rerun>>
    /\ UNCHANGED <<jobvars, scvars, guivars, appvars>>

\* `await rename(tempPath, state.path)` completes
PersistRename ==
    /\ dlpc = "persist_rename"
    /\ \/ ledgerFile' = LedgerOf(payload) /\ persisted' = TRUE
       \/ UNCHANGED <<ledgerFile, persisted>>
    /\ dlpc' = AfterFinally
    /\ UNCHANGED <<files, items, concurrency, retryCount, queue, result,
                   mediaKeys, payload, wpc, wcur, wattempt, woutcome, calls, whttp, ended,
                   werror, late, writebacks, loaded, rerun>>
    /\ UNCHANGED <<jobvars, scvars, guivars, appvars>>

\* a caller of downloadMediaBatch with any input
Call ==
    /\ calls < MaxCalls
    /\ \E inputItems \in ItemLists, inputConcurrency \in 0..MaxConcurrency,
          inputRetryCount \in 0..MaxRetryCount :
           downloadMediaBatch(inputItems, inputConcurrency, inputRetryCount)
    /\ UNCHANGED <<jobvars, scvars, guivars, appvars>>

\* DEFAULT_GRAPHQL_OPERATIONS: how many query ids each operation has
DefaultOperations == [UserByScreenName |-> 1, UserTweets |-> 1, UserMedia |-> 1]

NoRequest == [ops |-> 0, op |-> 0, fAttempt |-> 0, rAttempt |-> 0,
              canRefreshMeta |-> FALSE, named |-> {}, off |-> {},
              sweeps |-> 0, metaCalls |-> 0]
NoPagination == [collected |-> <<>>, remaining |-> 0, cursor |-> 0, maxId |-> "", guard |-> 0]
\* the last page a pagination loop got: its path, the number of its tweets,
\* its cursor, the id of its last tweet, and remaining and guard after it
NoPage == [path |-> "none", tweets |-> 0, next |-> "none", lastId |-> "",
           remaining |-> 0, guard |-> 0]
\* what the last failed sweep found and did, and what requestGraphql did with
\* the last error it caught
NoRecovery == [step |-> "none", sawAuthFailure |-> FALSE, sawQueryIdNotFound |-> FALSE,
               authLeft |-> FALSE, csrf |-> FALSE, bearerLeft |-> FALSE, metaLeft |-> FALSE,
               bearerIndex |-> 0, tokens |-> 0]
NoCatch == [caught |-> FALSE, missing |-> {}, features |-> {}, retried |-> FALSE,
            sent |-> {}, attempt |-> 0]

NoHistory == [used |-> {}, only401 |-> TRUE, path |-> "none",
              gqlThrew |-> FALSE, v11Requests |-> 0, consumed |-> <<>>,
              partial |-> <<>>, oversize |-> FALSE,
              maxSweeps |-> 0, maxMetaCalls |-> 0, maxRequests |-> 0,
              recovery |-> NoRecovery, catch |-> NoCatch, learned |-> {},
              lastPage |-> NoPage]

NoCollect == [url |-> 0, round |-> 0, unchangedRounds |-> 0, collected |-> <<>>]

\* The fields of a scraper object before initialize.  Of GraphqlMediaScraper:
\* initialized, hasClient (this.client is not null) and the fields of its
\* GraphqlApiClient.  Of PlaywrightMediaScraper: initialized and page,
\* context, browser, each "null", "open", or "closed" when the field still
\* refers to an object that has been closed.  History: closes counts the
\* close() calls since the last initialize, and touchedReleased says that
\* one of them has called close() on a closed object.
NoClient ==
    [initialized |-> FALSE, hasClient |-> FALSE, authCount |-> 0, authCandidateIndex |-> 0,
     bearerCount |-> 1, bearerTokenIndex |-> 0, ids |-> DefaultOperations,
     page |-> "null", context |-> "null", browser |-> "null",
     closes |-> 0, touchedReleased |-> FALSE]

ScraperInit ==
    /\ spc = "idle"
    /\ simpl = "none"
    /\ server = [timeline |-> {}, kinds |-> {"ok"}, refresh |-> FALSE]
    /\ client = NoClient
    /\ sinput = [username |-> <<>>, maxTweets |-> 0, mediaKinds |-> {}]
    /\ req = NoRequest
    /\ pag = NoPagination
    /\ sresult = <<>>
    /\ fetches = 0
    /\ shist = NoHistory
    /\ pw = NoCollect

\* startGuiServer, up to server.listen
GuiInit ==
    /\ runningJob = 0
    /\ handlers = [r \in 1..MaxRequests |-> [pc |-> "none", status |-> 0]]
    /\ children = {}
    /\ signalled = {}
    /\ spawned = 0

NoThrown == [class |-> "none", code |-> "none", phrases |-> {}, errno |-> "none"]

CliInit ==
    /\ command = "none"
    /\ cliPc = "idle"
    /\ cliError = NoThrown
    /\ runResult = [failedUsers |-> 0, failed |-> 0]
    /\ exitCode = 0

\* a SessionData as loginWithCookies builds it and the store keeps it
StoredSession(cookies, updatedAt, valid) ==
    [cookies |-> cookies, updatedAt |-> updatedAt, valid |-> valid]

NoData == StoredSession(<<>>, 0, FALSE)

\* The content of the session file: JSON text of an object, JSON text "null",
\* text that is no JSON, or (ENOENT) no file at all.
FileOf(syntax, data) == [syntax |-> syntax, data |-> data]

NoFile == FileOf("ENOENT", NoData)

\* What an operation gave back: null, a session, a boolean or nothing.
Value(kind, data, flag) == [kind |-> kind, data |-> data, flag |-> flag]

Void == Value("void", NoData, FALSE)

NoOp ==
    [op |-> "none", text |-> <<>>, strict |-> FALSE, required |-> <<>>, cookies |-> <<>>,
     threw |-> "none", missing |-> <<>>, returned |-> Void, saves |-> 0]

AuthInit ==
    /\ sessionFile = NoFile
    /\ clock = 0
    /\ authOp = NoOp
    /\ expected = NoFile

FnInit == applied = [fn |-> "none"]

Init == DlInit /\ JobInit /\ ScraperInit /\ GuiInit /\ CliInit /\ AuthInit /\ FnInit

Next ==
    \/ Call
    \/ StartWorkers
    \/ \E w \in Workers : WorkerSettle(w)
    \/ \E w \in Workers : WorkerMkdir(w)
    \/ \E w \in Workers : WorkerFileExists(w)
    \/ \E w \in Workers : WorkerFetch(w)
    \/ \E w \in Workers : WorkerWrite(w)
    \/ \E w \in Workers : WorkerRecord(w)
    \/ \E w \in Workers : WorkerBackoff(w)
    \/ PromiseAll
    \/ PersistMkdir
    \/ PersistWriteTemp
    \/ PersistRename

Spec == Init /\ [][Next]_vars

\* ------------------------------------------------------------ runBatchJob
RawHandles == {<<"@", "a">>, <<"@", " ">>}

UserLists == SeqsUpTo(RawHandles, MaxUsers)

\* what fetchUserMedia hands to runBatchJob
ScrapedLists == SeqsUpTo(ItemUniverse, MaxFound)

\* usernameRaw.replace(/^@/, "").trim()
StripHandle(usernameRaw) ==
    Trim(IF usernameRaw # <<>> /\ Head(usernameRaw) = "@" THEN Tail(usernameRaw)
         ELSE usernameRaw)

\* createEvent; <<>> stands for an absent username or progress
createEvent(type, username, progress) ==
    [type |-> type, pos |-> userIndex', username |-> username, progress |-> progress]

\* runBatchJob up to its first await, store.load()
runBatchJob(inputUsers, inputUserRetryCount, inputConcurrency, inputRetryCount, inputStore, inputEngine, inputScraper) ==
    /\ jpc = "idle"
    /\ users' = inputUsers
    /\ userRetryCount' = Max(0, inputUserRetryCount)
    /\ jobConcurrency' = inputConcurrency
    /\ jobRetryCount' = inputRetryCount
    /\ store' = inputStore
    /\ engine' = inputEngine
    /\ scraperImpl' = IF inputScraper THEN "injected" ELSE "none"
    /\ jpc' = "load"
    /\ UNCHANGED <<userIndex, attempt, mediaItems, jresult, scraper, events, session>>
    /\ UNCHANGED <<dlvars, scvars, guivars, appvars>>

JobLoadWithoutAnonymous ==
    /\ jpc = "load"
    /\ IF store = Unreadable
       THEN /\ jpc' = "threw"
            /\ UNCHANGED <<session, scraperImpl>>
       ELSE /\ session' = store
            /\ scraperImpl' = IF scraperImpl = "injected" THEN "injected"
                              ELSE createMediaScraper("none")
            /\ jpc' = "initialize"
    /\ UNCHANGED <<store, engine, users, userRetryCount, jobConcurrency, jobRetryCount,
                   userIndex, attempt, mediaItems, jresult, scraper, events>>
    /\ UNCHANGED <<dlvars, scvars, guivars, appvars>>

\* store.load() completes: a rejection leaves runBatchJob; otherwise the
\* active session is chosen, the scraper is taken or created and
\* scraper.initialize is awaited
JobLoad ==
    /\ jpc = "load"
    /\ IF store = Unreadable
       THEN /\ jpc' = "threw"
            /\ UNCHANGED <<session, scraperImpl>>
       ELSE /\ session' = IF store # NoSession /\ Len(store.cookies) > 0
                          THEN store ELSE buildAnonymousSession
            /\ scraperImpl' = IF scraperImpl = "injected" THEN "injected"
                              ELSE createMediaScraper("none")
            /\ jpc' = "initialize"
    /\ UNCHANGED <<store, engine, users, userRetryCount, jobConcurrency, jobRetryCount,
                   userIndex, attempt, mediaItems, jresult, scraper, events>>
    /\ UNCHANGED <<dlvars, scvars, guivars, appvars>>

\* initialize of the graphql scraper only builds the auth bundle; the
\* playwright scraper launches a browser and an injected scraper is unknown
InitializeCanThrow == scraperImpl # "graphql" \/ GraphqlRejects(session)
InitializeCanSucceed == scraperImpl # "graphql" \/ ~GraphqlRejects(session)

JobInitializeWithoutEvent ==
    /\ jpc = "initialize"
    /\ \/ /\ InitializeCanThrow
          /\ jpc' = "threw"
          /\ UNCHANGED <<scraper, jresult, events, userIndex>>
       \/ /\ InitializeCanSucceed
          /\ scraper' = "initialized"
          /\ jresult' = EmptyJobResult(Len(users))
          /\ userIndex' = 0
          /\ events' = <<>>
          /\ jpc' = "next_user"
    /\ UNCHANGED <<store, engine, scraperImpl, session, users, userRetryCount,
                   jobConcurrency, jobRetryCount, attempt, mediaItems>>
    /\ UNCHANGED <<dlvars, scvars, guivars, appvars>>

\* scraper.initialize completes: a rejection leaves runBatchJob before its
\* try; otherwise the result is set up and job_started is yielded
JobInitialize ==
    /\ jpc = "initialize"
    /\ \/ /\ InitializeCanThrow
          /\ jpc' = "threw"
          /\ UNCHANGED <<scraper, jresult, events, userIndex>>
       \/ /\ InitializeCanSucceed
          /\ scraper' = "initialized"
          /\ jresult' = EmptyJobResult(Len(users))
          /\ userIndex' = 0
          /\ events' = <<createEvent("job_started", <<>>, <<>>)>>
          /\ jpc' = "next_user"
    /\ UNCHANGED <<store, engine, scraperImpl, session, users, userRetryCount,
                   jobConcurrency, jobRetryCount, attempt, mediaItems>>
    /\ UNCHANGED <<dlvars, scvars, guivars, appvars>>

\* an empty entry that is skipped without being counted
SkipEmptyUncounted(r) == r

\* `result.failedUsers += 1` for an entry that is empty after stripping
SkipEmpty(r) == [r EXCEPT !.failedUsers = @ + 1]

\* the head of `for (const usernameRaw of input.users)`, reached from the
\* yield of job_started, of the warning of an empty entry, of user_finished
\* or of error; after the last handle, job_finished is yielded
JobNextUser ==
    /\ jpc = "next_user"
    /\ IF userIndex = Len(users)
       THEN /\ userIndex' = 0
            /\ events' = Append(events, createEvent("job_finished", <<>>,
                    <<[total |-> jresult.totalMedia, downloaded |-> jresult.downloaded,
                       failed |-> jresult.failed, skipped |-> jresult.skipped]>>))
            /\ jpc' = "job_finished"
            /\ UNCHANGED <<jresult, attempt>>
       ELSE /\ userIndex' = userIndex + 1
            /\ LET username == StripHandle(users[userIndex + 1])
               IN  IF username = <<>>
                   THEN /\ jresult' = SkipEmpty(jresult)
                        /\ events' = Append(events, createEvent("warning", <<>>, <<>>))
                        /\ jpc' = "next_user"
                        /\ UNCHANGED attempt
                   ELSE /\ events' = Append(events, createEvent("user_started", username, <<>>))
                        /\ attempt' = 1
                        /\ jpc' = "fetch"
                        /\ UNCHANGED jresult
    /\ UNCHANGED <<store, engine, scraperImpl, session, users, userRetryCount,
                   jobConcurrency, jobRetryCount, mediaItems, scraper>>
    /\ UNCHANGED <<dlvars, scvars, guivars, appvars>>

JobCatchErrorOnRetry ==
    LET username == StripHandle(users[userIndex])
        failureDetail == [scope |-> "user", username |-> username, attempts |-> attempt]
    IN  /\ userIndex' = userIndex
        /\ IF attempt <= userRetryCount
           THEN /\ jresult' = [jresult EXCEPT !.failureDetails = Append(@, failureDetail)]
                /\ events' = Append(events, createEvent("error", username, <<>>))
                /\ jpc' = "backoff"
           ELSE /\ jresult' = [jresult EXCEPT !.failureDetails = Append(@, failureDetail),
                                               !.failedUsers = @ + 1]
                /\ events' = Append(events, createEvent("error", username, <<>>))
                /\ jpc' = "next_user"

JobCatchLastAttemptEarly ==
    LET username == StripHandle(users[userIndex])
        failureDetail == [scope |-> "user", username |-> username, attempts |-> attempt]
    IN  /\ userIndex' = userIndex
        /\ IF attempt < userRetryCount
           THEN /\ jresult' = [jresult EXCEPT !.failureDetails = Append(@, failureDetail)]
                /\ events' = Append(events, createEvent("warning", username, <<>>))
                /\ jpc' = "backoff"
           ELSE /\ jresult' = [jresult EXCEPT !.failureDetails = Append(@, failureDetail),
                                               !.failedUsers = @ + 1]
                /\ events' = Append(events, createEvent("error", username, <<>>))
                /\ jpc' = "next_user"

\* the catch of the attempt loop
JobCatch ==
    LET username == StripHandle(users[userIndex])
        failureDetail == [scope |-> "user", username |-> username, attempts |-> attempt]
    IN  /\ userIndex' = userIndex
        /\ IF attempt <= userRetryCount
           THEN /\ jresult' = [jresult EXCEPT !.failureDetails = Append(@, failureDetail)]
                /\ events' = Append(events, createEvent("warning", username, <<>>))
                /\ jpc' = "backoff"
           ELSE /\ jresult' = [jresult EXCEPT !.failureDetails = Append(@, failureDetail),
                                               !.failedUsers = @ + 1]
                /\ events' = Append(events, createEvent("error", username, <<>>))
                /\ jpc' = "next_user"

\* `await scraper.fetchUserMedia` completes
JobFetch ==
    /\ jpc = "fetch"
    /\ \/ \E found \in ScrapedLists :
            /\ mediaItems' = found
            /\ jresult' = [jresult EXCEPT !.totalMedia = @ + Len(found)]
            /\ userIndex' = userIndex
            /\ events' = Append(events,
                    createEvent("media_found", StripHandle(users[userIndex]), <<>>))
            /\ jpc' = "media_found"
       \/ JobCatch /\ UNCHANGED mediaItems
    /\ UNCHANGED <<store, engine, scraperImpl, session, users, userRetryCount,
                   jobConcurrency, jobRetryCount, attempt, scraper>>
    /\ UNCHANGED <<dlvars, scvars, guivars, appvars>>

\* resumed after the yield of media_found: downloadMediaBatch is called
JobDownloadCall ==
    /\ jpc = "media_found"
    /\ downloadMediaBatch(mediaItems, jobConcurrency, jobRetryCount)
    /\ jpc' = "downloading"
    /\ UNCHANGED <<store, engine, scraperImpl, session, users, userRetryCount,
                   jobConcurrency, jobRetryCount, userIndex, attempt,
                   mediaItems, jresult, scraper, events>>
    /\ UNCHANGED <<scvars, guivars, appvars>>

\* `await downloadMediaBatch` returns: the counts are added and
\* download_progress is yielded.  Every worker of the call has returned, so
\* nothing of the call is left but its effect on the disk.
JobDownloaded ==
    /\ jpc = "downloading"
    /\ dlpc = "returned"
    /\ jresult' = [jresult EXCEPT !.downloaded = @ + result.downloaded,
                                  !.failed = @ + result.failed,
                                  !.skipped = @ + result.skipped,
                                  !.failureDetails = @ \o result.failureDetails,
                                  !.succeededUsers = @ + 1]
    /\ userIndex' = userIndex
    /\ events' = Append(events, createEvent("download_progress", StripHandle(users[userIndex]),
            <<[total |-> result.total, downloaded |-> result.downloaded,
               failed |-> result.failed, skipped |-> result.skipped]>>))
    /\ jpc' = "download_progress"
    /\ UNCHANGED <<store, engine, scraperImpl, session, users, userRetryCount,
                   jobConcurrency, jobRetryCount, attempt, mediaItems,
                   scraper>>
    /\ dlpc' = "idle"
    /\ items' = <<>>
    /\ concurrency' = 1
    /\ retryCount' = 0
    /\ queue' = <<>>
    /\ result' = EmptyResult(0)
    /\ mediaKeys' = {}
    /\ payload' = {}
    /\ wpc' = [w \in Workers |-> "idle"]
    /\ wcur' = [w \in Workers |-> 0]
    /\ wattempt' = [w \in Workers |-> 0]
    /\ woutcome' = [w \in Workers |-> NoOutcome]
    /\ whttp' = [w \in Workers |-> 0]
    /\ ended' = [p \in Positions |-> "none"]
    /\ werror' = [w \in Workers |-> NoError]
    /\ late' = FALSE
    /\ writebacks' = 0
    /\ loaded' = {}
    /\ persisted' = FALSE
    /\ rerun' = FALSE
    /\ UNCHANGED <<ledgerFile, files, calls>>
    /\ UNCHANGED <<scvars, guivars, appvars>>

\* `await downloadMediaBatch` throws into the catch of the attempt loop
JobDownloadThrew ==
    /\ jpc = "downloading"
    /\ dlpc = "thrown"
    /\ JobCatch
    /\ UNCHANGED <<store, engine, scraperImpl, session, users, userRetryCount,
                   jobConcurrency, jobRetryCount, attempt, mediaItems,
                   scraper>>
    /\ UNCHANGED <<dlvars, scvars, guivars, appvars>>

\* resumed after the yield of download_progress: user_finished is yielded
JobUserFinished ==
    /\ jpc = "download_progress"
    /\ userIndex' = userIndex
    /\ events' = Append(events,
            createEvent("user_finished", StripHandle(users[userIndex]), <<>>))
    /\ jpc' = "next_user"
    /\ UNCHANGED <<store, engine, scraperImpl, session, users, userRetryCount,
                   jobConcurrency, jobRetryCount, attempt, mediaItems,
                   jresult, scraper>>
    /\ UNCHANGED <<dlvars, scvars, guivars, appvars>>

\* `await sleep(retryBackoffMs)` completes: the next attempt starts
JobBackoff ==
    /\ jpc = "backoff"
    /\ attempt' = attempt + 1
    /\ jpc' = "fetch"
    /\ UNCHANGED <<store, engine, scraperImpl, session, users, userRetryCount,
                   jobConcurrency, jobRetryCount, userIndex,
                   mediaItems, jresult, scraper, events>>
    /\ UNCHANGED <<dlvars, scvars, guivars, appvars>>

\* resumed after the yield of job_finished: `return result` enters the
\* finally block, which awaits scraper.close()
JobReturn ==
    /\ jpc = "job_finished"
    /\ jpc' = "closing"
    /\ UNCHANGED <<store, engine, scraperImpl, session, users, userRetryCount,
                   jobConcurrency, jobRetryCount, userIndex, attempt,
                   mediaItems, jresult, scraper, events>>
    /\ UNCHANGED <<dlvars, scvars, guivars, appvars>>

\* scraper.close() completes and the generator ends with the JobResult
JobClose ==
    /\ jpc \in {"closing", "closing_abandoned"}
    /\ scraper' = "closed"
    /\ jpc' = IF jpc = "closing" THEN "done" ELSE "abandoned"
    /\ UNCHANGED <<store, engine, scraperImpl, session, users, userRetryCount,
                   jobConcurrency, jobRetryCount, userIndex, attempt,
                   mediaItems, jresult, events>>
    /\ UNCHANGED <<dlvars, scvars, guivars, appvars>>

\* the consumer calls return() on the generator while it is suspended at a
\* yield: the generator resumes with a return completion, which runs the
\* finally block
Abandon ==
    /\ jpc \in {"next_user", "fetch", "media_found", "download_progress", "backoff",
                "job_finished"}
    /\ (jpc = "fetch" => attempt = 1)
    /\ jpc' = "closing_abandoned"
    /\ UNCHANGED <<store, engine, scraperImpl, session, users, userRetryCount,
                   jobConcurrency, jobRetryCount, userIndex, attempt,
                   mediaItems, jresult, scraper, events>>
    /\ UNCHANGED <<dlvars, scvars, guivars, appvars>>

\* a caller of runBatchJob with a logged-in session and its own scraper,
\* and any batch input
Run ==
    \E inputUsers \in UserLists, inputUserRetryCount \in 0..MaxUserRetryCount,
       inputConcurrency \in 1..MaxConcurrency, inputRetryCount \in 0..MaxRetryCount :
        runBatchJob(inputUsers, inputUserRetryCount, inputConcurrency, inputRetryCount,
                    SessionData(<<"auth_token", "ct0">>, TRUE), "none", TRUE)

\* a caller of runBatchJob with one handle at most, and any store, engine
\* and scraper
RunLife ==
    \E inputUsers \in SeqsUpTo(RawHandles, 1), inputUserRetryCount \in 0..MaxUserRetryCount,
       inputRetryCount \in 0..MaxRetryCount,
       inputStore \in Stores, inputEngine \in Engines, inputScraper \in BOOLEAN :
        runBatchJob(inputUsers, inputUserRetryCount, 1, inputRetryCount,
                    inputStore, inputEngine, inputScraper)

NextJob ==
    \/ Run
    \/ JobLoad
    \/ JobInitialize
    \/ JobNextUser
    \/ JobFetch
    \/ JobDownloadCall
    \/ JobDownloaded
    \/ JobDownloadThrew
    \/ JobUserFinished
    \/ JobBackoff
    \/ JobReturn
    \/ JobClose
    \/ Abandon
    \/ StartWorkers
    \/ \E w \in Workers : WorkerSettle(w)
    \/ \E w \in Workers : WorkerMkdir(w)
    \/ \E w \in Workers : WorkerFileExists(w)
    \/ \E w \in Workers : WorkerFetch(w)
    \/ \E w \in Workers : WorkerWrite(w)
    \/ \E w \in Workers : WorkerRecord(w)
    \/ \E w \in Workers : WorkerBackoff(w)
    \/ PromiseAll
    \/ PersistMkdir
    \/ PersistWriteTemp
    \/ PersistRename

SpecJob == Init /\ [][NextJob]_vars

NextLife ==
    \/ RunLife
    \/ JobLoad
    \/ JobInitialize
    \/ JobNextUser
    \/ JobFetch
    \/ JobDownloadCall
    \/ JobDownloaded
    \/ JobDownloadThrew
    \/ JobUserFinished
    \/ JobBackoff
    \/ JobReturn
    \/ JobClose
    \/ Abandon
    \/ StartWorkers
    \/ \E w \in Workers : WorkerSettle(w)
    \/ \E w \in Workers : WorkerMkdir(w)
    \/ \E w \in Workers : WorkerFileExists(w)
    \/ \E w \in Workers : WorkerFetch(w)
    \/ \E w \in Workers : WorkerWrite(w)
    \/ \E w \in Workers : WorkerRecord(w)
    \/ \E w \in Workers : WorkerBackoff(w)
    \/ PromiseAll
    \/ PersistMkdir
    \/ PersistWriteTemp
    \/ PersistRename

SpecLife == Init /\ [][NextLife]_vars

\* ===================================================== the media scrapers
\* A media URL: the image host keeps images below /media/ and takes the
\* size as ?name=; a video URL names its directory and its extension.
\* NoUrl is the empty string.
NoUrl == [host |-> "", dir |-> "", file |-> "", ext |-> "", name |-> ""]
ImageUrl(file, name) ==
    [host |-> "pbs.twimg.com", dir |-> "media", file |-> file, ext |-> "jpg", name |-> name]
VideoUrl(dir, file, ext) ==
    [host |-> "video.twimg.com", dir |-> dir, file |-> file, ext |-> ext, name |-> ""]

\* normalizeImageUrl: ?name=orig on an image of the image host
normalizeImageUrl(raw) ==
    IF raw = NoUrl THEN raw
    ELSE IF raw.host # "pbs.twimg.com" \/ raw.dir # "media" THEN raw
    ELSE [raw EXCEPT !.name = "orig"]

\* a variant of video_info.variants; bitrate -1 stands for an absent bitrate
Variant(bitrate, contentType, url) ==
    [bitrate |-> bitrate, content_type |-> contentType, url |-> url]

\* a GraphqlMediaItem
Photo(idStr, url) == [type |-> "photo", id_str |-> idStr, media_url_https |-> url,
                      variants |-> <<>>]
Video(type, idStr, variants) == [type |-> type, id_str |-> idStr, media_url_https |-> NoUrl,
                                 variants |-> variants]

\* pickBestVideoVariant: the first variant of the highest bitrate among the
\* mp4 variants, or among all variants with a URL when none is mp4; NoUrl
\* stands for null
pickBestVideoVariant(media) ==
    LET valid == SelectSeq(media.variants, LAMBDA v : v.url # NoUrl)
        mp4 == SelectSeq(valid, LAMBDA v : v.content_type = "video/mp4" \/ v.url.ext = "mp4")
        pool == IF Len(mp4) > 0 THEN mp4 ELSE valid
        best == CHOOSE i \in 1..Len(pool) :
                    /\ \A j \in 1..Len(pool) : pool[j].bitrate <= pool[i].bitrate
                    /\ \A j \in 1..(i - 1) : pool[j].bitrate < pool[i].bitrate
    IN  IF Len(valid) = 0 THEN NoUrl ELSE pool[best].url

\* mapMediaKind; "none" stands for null
mapMediaKind(media, resolvedUrl) ==
    CASE media.type = "photo" -> "image"
      [] media.type = "animated_gif" -> "gif"
      [] media.type = "video" -> IF resolvedUrl.dir = "tweet_video" THEN "gif" ELSE "video"
      [] OTHER -> "none"

\* the URL mapMediaToItemsFromTweet resolves for a media entry
ResolveUrl(media) ==
    CASE media.type = "photo" -> normalizeImageUrl(media.media_url_https)
      [] media.type \in {"video", "animated_gif"} -> pickBestVideoVariant(media)
      [] OTHER -> NoUrl

RECURSIVE mapMediaToItemsFromTweet(_, _, _, _)
mapMediaToItemsFromTweet(tweetId, medias, username, allowedKinds) ==
    IF medias = <<>> THEN <<>>
    ELSE LET media == Head(medias)
             url == ResolveUrl(media)
             kind == mapMediaKind(media, url)
             rest == mapMediaToItemsFromTweet(tweetId, Tail(medias), username, allowedKinds)
         IN  IF url = NoUrl \/ kind = "none" \/ kind \notin allowedKinds THEN rest
             ELSE <<[id |-> <<tweetId, media.id_str>>, tweetId |-> tweetId,
                     username |-> username, kind |-> kind, url |-> url]>> \o rest

\* a tweet as the API gives it: author is user_id_str on the GraphQL path
\* and user.screen_name on the legacy path, <<>> when absent; retweeted
\* says that retweeted_status_result (retweeted_status) is present
Tweet(idStr, author, retweeted, media) ==
    [id_str |-> idStr, author |-> author, retweeted |-> retweeted, media |-> media]

mapGraphqlTweetToMediaItemsAnyAuthor(tweet, expectedUserId, username, allowedKinds) ==
    IF tweet.id_str = "" THEN <<>>
    ELSE IF tweet.retweeted THEN <<>>
    ELSE IF Len(tweet.media) = 0 THEN <<>>
    ELSE mapMediaToItemsFromTweet(tweet.id_str, tweet.media, username, allowedKinds)

mapGraphqlTweetToMediaItems(tweet, expectedUserId, username, allowedKinds) ==
    IF tweet.id_str = "" THEN <<>>
    ELSE IF tweet.author # <<>> /\ tweet.author # expectedUserId THEN <<>>
    ELSE IF tweet.retweeted THEN <<>>
    ELSE IF Len(tweet.media) = 0 THEN <<>>
    ELSE mapMediaToItemsFromTweet(tweet.id_str, tweet.media, username, allowedKinds)

mapV11TweetToMediaItems(tweet, normalizedUsername, allowedKinds) ==
    IF tweet.id_str = "" THEN <<>>
    ELSE IF tweet.retweeted THEN <<>>
    ELSE IF tweet.author # <<>> /\ ToLowerCase(tweet.author) # normalizedUsername THEN <<>>
    ELSE IF Len(tweet.media) = 0 THEN <<>>
    ELSE mapMediaToItemsFromTweet(tweet.id_str, tweet.media, normalizedUsername, allowedKinds)

\* the key dedupeMedia compares
MediaKey(item) == <<item.tweetId, item.kind, item.url>>

dedupeMediaKeepAll(mediaList) == mediaList

\* dedupeMedia: the first item of every key, in order
RECURSIVE dedupeMedia(_)
dedupeMedia(mediaList) ==
    IF mediaList = <<>> THEN <<>>
    ELSE LET front == dedupeMedia(SubSeq(mediaList, 1, Len(mediaList) - 1))
             last == mediaList[Len(mediaList)]
         IN  IF \E k \in 1..Len(front) : MediaKey(front[k]) = MediaKey(last)
             THEN front ELSE Append(front, last)

\* ------------------------------------------- GraphqlMediaScraper, in steps
GRAPHQL_BASES == <<"https://x.com/i/api/graphql/", "https://twitter.com/i/api/graphql/">>
API_V11_BASES == <<"https://api.x.com/1.1/", "https://api.twitter.com/1.1/",
                   "https://x.com/i/api/1.1/", "https://twitter.com/i/api/1.1/">>

\* The account asked for.  Its rest_id and its screen name are both written
\* <<"a">>; the server may spell the screen name <<"A">>.
RawUsername == <<"@", "A", " ">>
AccountId == <<"a">>

\* normalizeUsername
normalizeUsername(input) ==
    ToLowerCase(Trim(IF input # <<>> /\ Head(input) = "@" THEN Tail(input) ELSE input))

\* the tweets a server may hold
OwnTwoSizes ==
    Tweet("1", <<"a">>, FALSE, <<Photo("m1", ImageUrl("p1", "small")),
                                Photo("m2", ImageUrl("p1", "large"))>>)
AnonymousPhotoAndVideo ==
    Tweet("2", <<>>, FALSE,
          <<Photo("m1", ImageUrl("p2", "small")),
            Video("video", "m3",
                  <<Variant(1, "video/mp4", VideoUrl("ext_tw_video", "lo", "mp4")),
                    Variant(2, "application/x-mpegURL", VideoUrl("ext_tw_video", "pl", "m3u8")),
                    Variant(2, "video/mp4", VideoUrl("ext_tw_video", "hi", "mp4"))>>)>>)
OthersPhoto == Tweet("3", <<"b">>, FALSE, <<Photo("m1", ImageUrl("p3", "small"))>>)
Retweet == Tweet("4", <<"a">>, TRUE, <<Photo("m1", ImageUrl("p4", "small"))>>)
OwnGifOtherCase ==
    Tweet("5", <<"A">>, FALSE,
          <<Video("video", "m1", <<Variant(-1, "video/mp4",
                                          VideoUrl("tweet_video", "g", "mp4"))>>)>>)

WithoutMedia == Tweet("6", <<"a">>, FALSE, <<>>)
WithoutId == Tweet("", <<"a">>, FALSE, <<>>)

\* A server with a rich timeline whose requests succeed or fail plainly, and
\* a server with one tweet whose requests fail in every way the client
\* distinguishes and whose home page may yield a new ct0, bearer tokens and
\* query ids.
PlainServer ==
    [timeline |-> {OwnTwoSizes, AnonymousPhotoAndVideo, OthersPhoto, Retweet, OwnGifOtherCase},
     kinds |-> {"ok", "error"}, refresh |-> FALSE]
StormServer == [timeline |-> {OwnTwoSizes},
                kinds |-> {"ok", "auth401", "notfound404"},
                refresh |-> TRUE]
\* a server with one tweet that asks for feature flags the request lacks
FlagServer == [timeline |-> {OwnTwoSizes}, kinds |-> {"ok", "error", "features"},
               refresh |-> FALSE]
\* a server with a long timeline of tweets without media, and a server some
\* of whose tweets have no id_str
LongServer == [timeline |-> {WithoutMedia}, kinds |-> {"ok", "error"}, refresh |-> FALSE]
\* a server that rejects credentials and whose home page yields bearer tokens
RotationServer == [timeline |-> {WithoutMedia}, kinds |-> {"ok", "auth401"}, refresh |-> TRUE]
ShortServer == [timeline |-> {WithoutMedia, WithoutId}, kinds |-> {"ok", "error"},
                refresh |-> FALSE]

Pages == SeqsUpTo(server.timeline, MaxPage)

\* the scraper's state as one value, and its assignment to the variables
Cur == [pc |-> spc, client |-> client, input |-> sinput, req |-> req, pag |-> pag,
        result |-> sresult, hist |-> shist]

Apply(S) ==
    /\ spc' = S.pc
    /\ client' = S.client
    /\ sinput' = S.input
    /\ req' = S.req
    /\ pag' = S.pag
    /\ sresult' = S.result
    /\ shist' = S.hist

\* a fresh requestGraphql / requestJsonFromBases
FreshRequest(ops, op) ==
    [ops |-> ops, op |-> op, fAttempt |-> 0, rAttempt |-> 0,
     canRefreshMeta |-> TRUE, named |-> {}, off |-> {}, sweeps |-> 0, metaCalls |-> 0]

\* fetchUserMedia returns dedupeMedia(collected) / throws
Return(S) == [S EXCEPT !.pc = "returned", !.result = dedupeMedia(S.pag.collected),
                       !.req = NoRequest]
Threw(S) == [S EXCEPT !.pc = "threw", !.result = <<>>, !.req = NoRequest]

\* a loop of fetchViaV11 without the guard
V11LoopUnguarded(S) ==
    IF S.pag.remaining > 0
    THEN [S EXCEPT !.pc = "v11page", !.pag.guard = @ + 1,
                   !.req = FreshRequest(1, 1), !.hist.v11Requests = @ + 1]
    ELSE Return(S)

\* the head of the while loop of fetchViaV11
V11Loop(S) ==
    IF S.pag.remaining > 0 /\ S.pag.guard < 30
    THEN [S EXCEPT !.pc = "v11page", !.pag.guard = @ + 1,
                   !.req = FreshRequest(1, 1), !.hist.v11Requests = @ + 1]
    ELSE Return(S)

fetchViaV11KeepsCollected(S) ==
    V11Loop([S EXCEPT !.pag = [collected |-> S.pag.collected,
                               remaining |-> S.input.maxTweets, cursor |-> 0,
                               maxId |-> "", guard |-> 0],
                      !.hist.consumed = <<>>, !.hist.oversize = FALSE,
                      !.hist.lastPage = NoPage,
                      !.hist.path = "v11"])

\* fetchViaV11, up to its first request
fetchViaV11(S) ==
    V11Loop([S EXCEPT !.pag = [collected |-> <<>>, remaining |-> S.input.maxTweets,
                               cursor |-> 0, maxId |-> "", guard |-> 0],
                      !.hist.consumed = <<>>, !.hist.oversize = FALSE,
                      !.hist.lastPage = NoPage,
                      !.hist.path = "v11"])

\* fetchViaGraphql has thrown: fetchUserMedia catches the error and calls
\* fetchViaV11; what fetchViaGraphql had collected is dropped with its frame
GraphqlThrew(S) ==
    fetchViaV11([S EXCEPT !.hist.gqlThrew = TRUE, !.hist.partial = S.pag.collected])

\* the head of the while loop of fetchViaGraphql
GraphqlLoop(S) ==
    IF S.pag.remaining > 0 /\ S.pag.guard < 30
    THEN [S EXCEPT !.pc = "gqlpage", !.pag.guard = @ + 1,
                   !.req = FreshRequest(S.client.ids.UserTweets + S.client.ids.UserMedia, 1)]
    ELSE Return(S)

\* an operation of resolveUserIdByGraphql / fetchUserMediaByGraphql gave
\* nothing: the next query id is tried, and after the last one the GraphQL
\* path throws
OperationFailed(S) ==
    IF S.req.op < S.req.ops
    THEN [S EXCEPT !.req = FreshRequest(S.req.ops, S.req.op + 1)]
    ELSE GraphqlThrew(S)

\* The feature flags: 0 is a key of the literal that the caller hands to
\* requestGraphql, the others are keys the server may ask for.
LiteralFeatures == {0}
Flags == 1..MaxFlags

\* a variant of the filter that keeps the keys adaptiveFeatures has already
NewKeysUnfiltered(missing, adaptiveFeatures) == missing

\* missing.filter((key) => !(key in adaptiveFeatures))
NewKeys(missing, adaptiveFeatures) == missing \ adaptiveFeatures

\* the keys of adaptiveFeatures in a requestGraphql whose loop has switched
\* the flags `off` off
AdaptiveFeatures(off) == LiteralFeatures \cup off

\* the catch of requestGraphql: the error names `missing`; retried: the loop
\* goes on, sending the features `sent`
CatchOf(S, retried) ==
    [caught |-> TRUE, missing |-> S.req.named, features |-> AdaptiveFeatures(S.req.off),
     retried |-> retried, attempt |-> S.req.fAttempt,
     sent |-> AdaptiveFeatures(S.req.off \cup NewKeys(S.req.named, AdaptiveFeatures(S.req.off)))]

\* requestJsonFromBases has thrown.  On the legacy path fetchUserMedia
\* throws; on the GraphQL path requestGraphql switches off the features the
\* message names and adaptiveFeatures has not, and asks again, up to 4
\* requests; without such a feature it rethrows.
RequestThrew(S) ==
    IF S.pc = "v11page" THEN Threw(S)
    ELSE IF NewKeys(S.req.named, AdaptiveFeatures(S.req.off)) = {}
    THEN OperationFailed([S EXCEPT !.hist.catch = CatchOf(S, FALSE)])
    ELSE IF S.req.fAttempt + 1 < 4
         THEN [S EXCEPT !.req = [FreshRequest(S.req.ops, S.req.op)
                                     EXCEPT !.fAttempt = S.req.fAttempt + 1,
                                            !.off = S.req.off
                                                \cup NewKeys(S.req.named, AdaptiveFeatures(S.req.off))],
                        !.hist.catch = CatchOf(S, TRUE),
                        !.hist.learned = @ \cup NewKeys(S.req.named, AdaptiveFeatures(S.req.off))]
         ELSE OperationFailed(
                  [S EXCEPT !.hist.catch = CatchOf(S, FALSE),
                            !.hist.learned = @ \cup NewKeys(S.req.named, AdaptiveFeatures(S.req.off))])

\* a loop of requestJsonFromBases that makes a fourth pass
ContinueFourPasses(S) ==
    IF S.req.rAttempt + 1 < 4 THEN [S EXCEPT !.req.rAttempt = @ + 1]
    ELSE RequestThrew(S)

\* `continue` of the attempt loop of requestJsonFromBases
Continue(S) ==
    IF S.req.rAttempt + 1 < 3 THEN [S EXCEPT !.req.rAttempt = @ + 1]
    ELSE RequestThrew(S)

\* what refreshWebMetadata may discover, when it is called
MetaOutcomes(called) ==
    IF called /\ server.refresh
    THEN {[tokens |-> t, operations |-> o] : t \in {0, 2}, o \in BOOLEAN}
    ELSE {[tokens |-> 0, operations |-> FALSE]}

\* setBearerTokens and mergeGraphqlOperations of a discovery
Discovered(c, meta) ==
    [c EXCEPT !.bearerCount = IF meta.tokens > 0 THEN meta.tokens ELSE @,
              !.bearerTokenIndex = IF meta.tokens > 0 THEN 0 ELSE @,
              !.ids = IF meta.operations
                      THEN [UserByScreenName |-> 2, UserTweets |-> 1, UserMedia |-> 1]
                      ELSE @]

\* a rotation that does not look at the length of the list
rotateAuthCandidateAlways(c) == TRUE

\* rotateAuthCandidate: whether there is a next auth triple
rotateAuthCandidate(c) == c.authCandidateIndex + 1 < c.authCount

\* every base of a sweep of requestJsonFromBases failed, base i with
\* failure[i]; csrf: refreshCsrfTokenFromCurrentAuth found a new ct0; names:
\* the features the errors of this sweep say cannot be null
SweepFailed(S, failure, csrf, meta, names) ==
    LET sawAuthFailure == \E i \in DOMAIN failure : failure[i] = "auth401"
        sawQueryIdNotFound == \E i \in DOMAIN failure : failure[i] = "notfound404"
        Took(step) ==
            [step |-> step, sawAuthFailure |-> sawAuthFailure,
             sawQueryIdNotFound |-> sawQueryIdNotFound,
             authLeft |-> rotateAuthCandidate(S.client), csrf |-> csrf,
             bearerLeft |-> S.client.bearerTokenIndex + 1 < S.client.bearerCount,
             metaLeft |-> S.req.canRefreshMeta,
             bearerIndex |-> S.client.bearerTokenIndex,
             tokens |-> IF step = "meta" THEN meta.tokens ELSE 0]
        S1 == [S EXCEPT !.req.named = @ \cup names,
                        !.hist.only401 =
                            @ /\ \A i \in DOMAIN failure : failure[i] = "auth401"]
    IN  IF sawAuthFailure /\ rotateAuthCandidate(S1.client)
        THEN Continue([S1 EXCEPT !.client.authCandidateIndex = @ + 1,
                                 !.hist.recovery = Took("auth")])
        ELSE IF sawAuthFailure /\ csrf
        THEN Continue([S1 EXCEPT !.hist.recovery = Took("csrf")])
        ELSE IF sawAuthFailure /\ S1.client.bearerTokenIndex + 1 < S1.client.bearerCount
        THEN Continue([S1 EXCEPT !.client.bearerTokenIndex = @ + 1,
                                 !.hist.recovery = Took("bearer")])
        ELSE IF (sawAuthFailure \/ sawQueryIdNotFound) /\ S1.req.canRefreshMeta
        THEN LET S2 == [S1 EXCEPT !.req.canRefreshMeta = FALSE,
                                  !.req.metaCalls = @ + 1,
                                  !.hist.maxMetaCalls = Max(@, S1.req.metaCalls + 1),
                                  !.hist.recovery = Took("meta"),
                                  !.client = Discovered(@, meta)]
             IN  IF meta.tokens > 0 \/ meta.operations THEN Continue(S2)
                 ELSE RequestThrew(S2)
        ELSE RequestThrew([S1 EXCEPT !.hist.recovery = Took("none")])

\* flattening of the items of the tweets of a page, on either path
RECURSIVE PageItems(_, _, _)
PageItems(page, path, input) ==
    IF page = <<>> THEN <<>>
    ELSE (IF path = "graphql"
          THEN mapGraphqlTweetToMediaItems(Head(page), AccountId, input.username,
                                           input.mediaKinds)
          ELSE mapV11TweetToMediaItems(Head(page), ToLowerCase(input.username),
                                       input.mediaKinds))
         \o PageItems(Tail(page), path, input)

\* the loop body of fetchViaGraphql / fetchViaV11 after a page of tweets:
\* remaining -= 1 and collected.push(...) for every tweet
Consume(S, page, pageSize) ==
    [S EXCEPT !.pag.remaining = @ - Len(page),
              !.pag.collected = @ \o PageItems(page, S.hist.path, S.input),
              !.hist.consumed = @ \o page,
              !.hist.oversize = @ \/ Len(page) > pageSize]

\* /^\d+$/.test(lastId) of a defined lastId, and (BigInt(lastId) - 1n).toString()
IsDigits(idStr) == \E n \in 0..9 : ToString(n) = idStr
BigInt(idStr) == CHOOSE n \in 0..9 : ToString(n) = idStr
NextMax(lastId) == ToString(BigInt(lastId) - 1)

\* id_str of the last tweet of a page, "" when it has none
LastId(page) == IF page = <<>> THEN "" ELSE page[Len(page)].id_str

\* the page the loop has just got
Paged(S, answer) ==
    [S EXCEPT !.hist.lastPage =
        [path |-> S.hist.path, tweets |-> Len(answer.tweets), next |-> answer.next,
         lastId |-> LastId(answer.tweets),
         remaining |-> S.pag.remaining - Len(answer.tweets), guard |-> S.pag.guard]]

\* the rest of the loop body of fetchViaV11 after the tweets of a page
V11Advance(S, lastId) ==
    IF lastId = "" \/ ~IsDigits(lastId) THEN Return(S)
    ELSE IF NextMax(lastId) = lastId THEN Return(S)
    ELSE V11Loop([S EXCEPT !.pag.maxId = NextMax(lastId)])

\* fetchViaGraphql once the user id is resolved
fetchViaGraphql(S) ==
    GraphqlLoop([S EXCEPT !.pag = [collected |-> <<>>, remaining |-> S.input.maxTweets,
                                   cursor |-> 0, maxId |-> "", guard |-> 0],
                          !.hist.path = "graphql"])

\* what a sweep that reaches a base may be answered, by the awaiting call:
\* whether the user has a rest_id, or a page of tweets with its bottom
\* cursor; next = "invalid" is a legacy answer that is not an array
Payloads ==
    CASE spc = "resolve" -> {"user", "nouser"}
      [] spc = "gqlpage" ->
            {[tweets |-> p, next |-> n] :
                p \in Pages,
                n \in {"none", "new"} \cup (IF pag.cursor > 0 THEN {"same"} ELSE {})}
      [] spc = "v11page" ->
            {[tweets |-> p, next |-> "none"] : p \in Pages}
                \cup {[tweets |-> <<>>, next |-> "invalid"]}

\* requestJsonFromBases returned parsed JSON to the awaiting call
Delivered(S, answer) ==
    CASE S.pc = "resolve" ->
            IF answer = "user" THEN fetchViaGraphql(S) ELSE OperationFailed(S)
      [] S.pc = "gqlpage" ->
            LET pageSize == Min(100, S.pag.remaining)
                S1 == Consume(Paged(S, answer), answer.tweets, pageSize)
            IN  IF Len(answer.tweets) = 0 THEN Return(Paged(S, answer))
                ELSE IF answer.next \in {"none", "same"} THEN Return(S1)
                ELSE GraphqlLoop([S1 EXCEPT !.pag.cursor = @ + 1])
      [] S.pc = "v11page" ->
            LET pageSize == Min(200, Max(1, S.pag.remaining))
            IN  IF answer.next = "invalid" THEN Threw(S)
                ELSE IF Len(answer.tweets) = 0 THEN Return(Paged(S, answer))
                ELSE V11Advance(Consume(Paged(S, answer), answer.tweets, pageSize),
                                LastId(answer.tweets))

\* GraphqlMediaScraper.initialize against a server: authCount is the number
\* of auth triples buildGraphqlAuthBundle finds in the session, and with
\* none it throws
GraphqlInitialize(srv, authCount) ==
    /\ spc = "idle" \/ (spc = "closed" /\ simpl = "graphql")
    /\ simpl' = "graphql"
    /\ server' = srv
    /\ spc' = "ready"
    /\ client' = IF authCount = 0 THEN client
                 ELSE [NoClient EXCEPT !.initialized = TRUE, !.hasClient = TRUE,
                                       !.authCount = authCount]
    /\ UNCHANGED <<dlvars, jobvars, guivars, appvars, sinput, req, pag, sresult, fetches, shist, pw>>

\* GraphqlMediaScraper.initialize of a scraper that has a client: setBundle
GraphqlReinitialize(authCount) ==
    /\ simpl = "graphql"
    /\ spc \in {"ready", "returned", "threw"}
    /\ client.hasClient
    /\ authCount > 0
    /\ spc' = "ready"
    /\ client' = [client EXCEPT !.initialized = TRUE, !.authCount = authCount,
                                !.authCandidateIndex = 0]
    /\ UNCHANGED <<dlvars, jobvars, guivars, appvars, simpl, server, sinput, req, pag, sresult, fetches, shist, pw>>

\* how many fetchUserMedia calls are followed on one scraper
FetchLimit == IF server = RotationServer THEN MaxFetches + 1 ELSE MaxFetches

\* GraphqlMediaScraper.fetchUserMedia, up to its first request
FetchUserMedia(username, maxTweets, mediaKinds) ==
    /\ simpl = "graphql"
    /\ spc \in {"ready", "returned", "threw", "closed"}
    /\ fetches < FetchLimit
    /\ fetches' = fetches + 1
    /\ LET S == [Cur EXCEPT !.input = [username |-> normalizeUsername(username),
                                       maxTweets |-> maxTweets, mediaKinds |-> mediaKinds],
                            !.hist = NoHistory, !.pag = NoPagination, !.result = <<>>]
       IN  IF ~client.initialized \/ ~client.hasClient THEN Apply(Threw(S))
           ELSE Apply([S EXCEPT !.pc = "resolve",
                                !.req = FreshRequest(client.ids.UserByScreenName, 1)])
    /\ UNCHANGED <<dlvars, jobvars, guivars, appvars, simpl, server, pw>>

\* the requests of this sweep carry the current auth triple
Sent(S, allAuthFailures) ==
    [S EXCEPT !.hist.used = @ \cup {S.client.authCandidateIndex},
              !.hist.only401 = @ /\ allAuthFailures,
              !.req.sweeps = @ + 1,
              !.hist.recovery = NoRecovery,
              !.hist.catch = NoCatch,
              !.hist.maxSweeps = Max(@, S.req.sweeps + 1),
              !.hist.maxRequests = Max(@, S.req.fAttempt + 1)]

\* one sweep of requestJsonFromBases over its bases that some base answers
SweepAnswered ==
    /\ spc \in {"resolve", "gqlpage", "v11page"}
    /\ "ok" \in server.kinds
    /\ \E answer \in Payloads : Apply(Delivered(Sent(Cur, FALSE), answer))
    /\ UNCHANGED <<dlvars, jobvars, guivars, appvars, simpl, server, fetches, pw>>

\* the features the errors of a sweep may name: the literal's key, the next
\* key that is not switched off, both, or the next two
NamedFeatures(off) ==
    LET fresh == Flags \ off
        next == CHOOSE f \in fresh : \A g \in fresh : f <= g
    IN  IF fresh = {} THEN {LiteralFeatures}
        ELSE {LiteralFeatures, {next}, {next} \cup ({next + 1} \cap fresh)}

\* one sweep of requestJsonFromBases in which every base fails
SweepAllFailed ==
    /\ spc \in {"resolve", "gqlpage", "v11page"}
    /\ \E failure \in [DOMAIN (IF spc = "v11page" THEN API_V11_BASES ELSE GRAPHQL_BASES) ->
                          server.kinds \ ({"ok"} \cup IF spc = "v11page" THEN {"features"}
                                                      ELSE {})] :
         LET saw(kinds) == \E i \in DOMAIN failure : failure[i] \in kinds
             rotated == saw({"auth401"}) /\ rotateAuthCandidate(client)
         IN  \E csrf \in (IF saw({"auth401"}) /\ ~rotated /\ server.refresh
                          THEN BOOLEAN ELSE {FALSE}),
                meta \in MetaOutcomes(/\ saw({"auth401", "notfound404"}) /\ ~rotated
                                      /\ req.canRefreshMeta),
                names \in (IF saw({"features"}) THEN NamedFeatures(req.off) ELSE {{}}) :
                Apply(SweepFailed(Sent(Cur, \A i \in DOMAIN failure : failure[i] = "auth401"),
                                  failure, csrf, meta, names))
    /\ UNCHANGED <<dlvars, jobvars, guivars, appvars, simpl, server, fetches, pw>>

\* ---------------------------------------------- PlaywrightMediaScraper
\* a DomMediaCandidate of extractMediaFromPage
Candidate(tweetId, index, kind, url) ==
    [id |-> <<tweetId, index>>, tweetId |-> tweetId, username |-> AccountId,
     kind |-> kind, url |-> url]

Candidates ==
    { Candidate("1", "img_0", "image", normalizeImageUrl(ImageUrl("p1", "small"))),
      Candidate("1", "img_1", "image", normalizeImageUrl(ImageUrl("p1", "large"))),
      Candidate("2", "video_0", "video", VideoUrl("ext_tw_video", "hi", "mp4")) }

\* collected.set(key, item) of a Map kept in insertion order
MapSet(collected, item) ==
    IF \E k \in 1..Len(collected) : MediaKey(collected[k]) = MediaKey(item)
    THEN [k \in 1..Len(collected) |->
             IF MediaKey(collected[k]) = MediaKey(item) THEN item ELSE collected[k]]
    ELSE Append(collected, item)

RECURSIVE MapSetAll(_, _)
MapSetAll(collected, batch) ==
    IF batch = <<>> THEN collected
    ELSE MapSetAll(MapSet(collected, Head(batch)), Tail(batch))

PlaywrightInitialize ==
    /\ spc = "idle" \/ (spc = "closed" /\ simpl = "playwright")
    /\ simpl' = "playwright"
    /\ spc' = "ready"
    /\ client' = [client EXCEPT !.initialized = TRUE, !.page = "open",
                                !.context = "open", !.browser = "open", !.closes = 0]
    /\ UNCHANGED <<dlvars, jobvars, guivars, appvars, server, sinput, req, pag, sresult, fetches, shist, pw>>

\* PlaywrightMediaScraper.fetchUserMedia, up to the first page.goto
PlaywrightFetchUserMedia(username, maxTweets, mediaKinds) ==
    /\ simpl = "playwright"
    /\ spc \in {"ready", "returned", "threw", "closed"}
    /\ fetches < MaxFetches
    /\ fetches' = fetches + 1
    /\ sinput' = [username |-> normalizeUsername(username), maxTweets |-> maxTweets,
                  mediaKinds |-> mediaKinds]
    /\ sresult' = <<>>
    /\ spc' = IF ~client.initialized THEN "threw" ELSE "collect"
    /\ pw' = IF ~client.initialized THEN NoCollect ELSE [NoCollect EXCEPT !.url = 1]
    /\ UNCHANGED <<dlvars, jobvars, guivars, appvars, simpl, server, client, req, pag, shist>>

\* the end of collectFromUrl for the current URL, with its candidates
Collected(candidates) ==
    IF Len(candidates) > 0
    THEN /\ spc' = "returned"
         /\ sresult' = SelectSeq(dedupeMedia(candidates),
                                 LAMBDA item : item.kind \in sinput.mediaKinds)
         /\ pw' = [pw EXCEPT !.collected = candidates]
    ELSE /\ spc' = IF pw.url < 4 THEN "collect" ELSE "threw"
         /\ sresult' = <<>>
         /\ pw' = IF pw.url < 4 THEN [NoCollect EXCEPT !.url = pw.url + 1] ELSE pw

\* one round of collectFromUrl: extractMediaFromPage gives a batch
PlaywrightRound ==
    /\ spc = "collect"
    /\ \E batch \in SeqsUpTo(Candidates, MaxPage) :
          LET after == MapSetAll(pw.collected, batch)
              unchanged == IF Len(after) = Len(pw.collected)
                           THEN pw.unchangedRounds + 1 ELSE 0
          IN  IF unchanged >= 3 \/ pw.round + 1 >= 14
              THEN Collected(after)
              ELSE /\ pw' = [pw EXCEPT !.round = @ + 1, !.unchangedRounds = unchanged,
                                       !.collected = after]
                   /\ UNCHANGED <<spc, sresult>>
    /\ UNCHANGED <<dlvars, jobvars, guivars, appvars, simpl, server, client, sinput, req, pag, fetches, shist>>

\* page.goto or extractMediaFromPage throws: the next URL is tried
PlaywrightUrlThrows ==
    /\ spc = "collect"
    /\ Collected(<<>>)
    /\ UNCHANGED <<dlvars, jobvars, guivars, appvars, simpl, server, client, sinput, req, pag, fetches, shist>>

\* GraphqlMediaScraper.close
GraphqlClose ==
    /\ simpl = "graphql"
    /\ spc \in {"ready", "returned", "threw", "closed"}
    /\ client.closes < MaxCloses
    /\ spc' = "closed"
    /\ client' = [client EXCEPT !.initialized = FALSE, !.hasClient = FALSE,
                                !.closes = @ + 1]
    /\ UNCHANGED <<dlvars, jobvars, guivars, appvars, simpl, server, sinput, req, pag, sresult, fetches, shist, pw>>

\* The close() calls that dispose can reject at: those it reaches, on a
\* field that is not null.
CanReject(c) ==
    {"none"} \cup (IF c.page # "null" THEN {"page"} ELSE {})
             \cup (IF c.context # "null" THEN {"context"} ELSE {})
             \cup (IF c.browser # "null" THEN {"browser"} ELSE {})

\* the state of a field after `await this.field?.close()` has resolved
Closed(field) == IF field = "null" THEN "null" ELSE "closed"

\* PlaywrightMediaScraper.dispose when the close() of `rejects` rejects
\* ("none": none does): the fields are reset after the three awaits, in the
\* try, and the catch is empty
dispose(c, rejects) ==
    LET touched ==
            \/ c.page = "closed"
            \/ rejects # "page" /\ c.context = "closed"
            \/ rejects \notin {"page", "context"} /\ c.browser = "closed"
        c1 == [c EXCEPT !.closes = @ + 1, !.touchedReleased = @ \/ touched]
    IN  CASE rejects = "page" -> c1
          [] rejects = "context" -> [c1 EXCEPT !.page = Closed(@)]
          [] rejects = "browser" -> [c1 EXCEPT !.page = Closed(@), !.context = Closed(@)]
          [] OTHER -> [c1 EXCEPT !.page = "null", !.context = "null", !.browser = "null",
                                 !.initialized = FALSE]

\* PlaywrightMediaScraper.close
PlaywrightClose ==
    /\ simpl = "playwright"
    /\ spc \in {"ready", "returned", "threw", "closed"}
    /\ client.closes < MaxCloses
    /\ spc' = "closed"
    /\ \E rejects \in CanReject(client) : client' = dispose(client, rejects)
    /\ UNCHANGED <<dlvars, jobvars, guivars, appvars, simpl, server, sinput, req, pag, sresult, fetches, shist, pw>>

NextScraper ==
    \/ \E srv \in {PlainServer, FlagServer} : GraphqlInitialize(srv, 1)
    \/ \E authCount \in {0, 1, MaxAuthTriples} : GraphqlInitialize(StormServer, authCount)
    \/ \E maxTweets \in 1..MaxTweets, mediaKinds \in {{"image"}, {"image", "video", "gif"}} :
          FetchUserMedia(RawUsername, maxTweets, mediaKinds)
    \/ SweepAnswered
    \/ SweepAllFailed
    \/ PlaywrightInitialize
    \/ \E maxTweets \in 1..MaxTweets, mediaKinds \in {{"image"}, {"image", "video", "gif"}} :
          PlaywrightFetchUserMedia(RawUsername, maxTweets, mediaKinds)
    \/ PlaywrightRound
    \/ PlaywrightUrlThrows

SpecScraper == Init /\ [][NextScraper]_vars

\* ------------------------------------------------------ the GUI server
\* what readJsonBody and the checks after it make of a request body
Bodies == {"download", "no users", "no outDir", "not JSON"}

\* sendJson(res, status, ...) and return
Answer(r, status) == handlers' = [handlers EXCEPT ![r] = [pc |-> "answered", status |-> status]]

\* POST /api/download, up to `await readJsonBody(req)`
PostDownload(r) ==
    /\ handlers[r].pc = "none"
    /\ IF runningJob # 0
       THEN Answer(r, 409)
       ELSE handlers' = [handlers EXCEPT ![r].pc = "readJsonBody"]
    /\ UNCHANGED <<runningJob, children, signalled, spawned>>
    /\ UNCHANGED <<dlvars, jobvars, scvars, appvars>>

\* POST /api/download from the resolution of readJsonBody: JSON.parse may
\* throw (answered 500 by the catch), the body may lack users or outDir
\* (400), and otherwise the CLI is spawned and runningJob assigned
PostDownloadBody(r, body) ==
    /\ handlers[r].pc = "readJsonBody"
    /\ CASE body = "not JSON" -> Answer(r, 500)
         [] body \in {"no users", "no outDir"} -> Answer(r, 400)
         [] OTHER -> Answer(r, 200)
    /\ IF body = "download"
       THEN /\ spawned' = spawned + 1
            /\ children' = children \cup {spawned + 1}
            /\ runningJob' = spawned + 1
       ELSE UNCHANGED <<runningJob, children, spawned>>
    /\ UNCHANGED signalled
    /\ UNCHANGED <<dlvars, jobvars, scvars, appvars>>

\* POST /api/stop
PostStop(r) ==
    /\ handlers[r].pc = "none"
    /\ Answer(r, 200)
    /\ signalled' = IF runningJob # 0 THEN signalled \cup {runningJob} ELSE signalled
    /\ UNCHANGED <<runningJob, children, spawned>>
    /\ UNCHANGED <<dlvars, jobvars, scvars, appvars>>

\* the "close" (or "error") event of a child: runningJob = null
ChildClose(pid) ==
    /\ pid \in children
    /\ children' = children \ {pid}
    /\ runningJob' = 0
    /\ UNCHANGED <<handlers, signalled, spawned>>
    /\ UNCHANGED <<dlvars, jobvars, scvars, appvars>>

NextGui ==
    \/ \E r \in 1..MaxRequests : PostDownload(r)
    \/ \E r \in 1..MaxRequests, body \in Bodies : PostDownloadBody(r, body)
    \/ \E r \in 1..MaxRequests : PostStop(r)
    \/ \E pid \in 1..MaxRequests : ChildClose(pid)

SpecGui == Init /\ [][NextGui]_vars

\* ------------------------------------------------------------- the CLI
EXIT_CODES == [SUCCESS |-> 0, USAGE |-> 2, AUTH |-> 3, PARTIAL_FAILURE |-> 4, INTERNAL |-> 5]

\* new CliError(code, message)
CliError(code) ==
    [class |-> "CliError", code |-> code, phrases |-> {}, errno |-> "none",
     exitCode |-> CASE code = "TWMD_E_USAGE" -> EXIT_CODES.USAGE
                    [] code = "TWMD_E_AUTH" -> EXIT_CODES.AUTH
                    [] code = "TWMD_E_PARTIAL" -> EXIT_CODES.PARTIAL_FAILURE
                    [] OTHER -> EXIT_CODES.INTERNAL]

\* the phrases toCliError looks for in the lowercased message
UsagePhrases == {"unknown command", "requires --", "invalid value",
                 "cannot be used together", "is required"}
AuthPhrases == {"missing required cookies", "session is not available", "not logged in",
                "login first"}
BrowserPhrases == {"executable doesn't exist", "browser has not been found",
                   "please run the following command"}

\* an error that is not a CliError: the phrases its message includes and
\* its code property
PlainError(phrases, errno) ==
    [class |-> "Error", code |-> "none", phrases |-> phrases, errno |-> errno]

\* toCliError
toCliError(error) ==
    IF error.class = "CliError" THEN error
    ELSE IF error.phrases \cap UsagePhrases # {} THEN CliError("TWMD_E_USAGE")
    ELSE IF error.phrases \cap AuthPhrases # {} THEN CliError("TWMD_E_AUTH")
    ELSE IF "playwright" \in error.phrases /\ error.phrases \cap BrowserPhrases # {}
         THEN CliError("TWMD_E_USAGE")
    ELSE IF error.errno = "ENOENT" THEN CliError("TWMD_E_USAGE")
    ELSE IF error.errno \in {"EACCES", "EPERM", "EISDIR", "ENOTDIR"}
         THEN CliError("TWMD_E_INTERNAL")
    ELSE CliError("TWMD_E_INTERNAL")

\* the errors the commands throw: the CliErrors index.ts constructs, and
\* errors of the libraries whose message includes at most two of the phrases
ThrownErrors ==
    {CliError(code) : code \in {"TWMD_E_USAGE", "TWMD_E_AUTH", "TWMD_E_INTERNAL"}}
    \cup {PlainError(phrases, errno) :
            phrases \in {p \in SUBSET (UsagePhrases \cup AuthPhrases \cup BrowserPhrases
                                          \cup {"playwright"}) : Cardinality(p) <= 2},
            errno \in {"none", "ENOENT", "EACCES", "EPIPE"}}

hasFinalFailuresOfUsers(jobResult) == jobResult.failedUsers > 0

hasFinalFailures(jobResult) == jobResult.failedUsers > 0 \/ jobResult.failed > 0

\* main(), up to the dispatch on the command
Main(cmd) ==
    /\ cliPc = "idle"
    /\ command' = cmd
    /\ IF cmd \in {"help", "login", "whoami", "logout", "download"}
       THEN /\ cliPc' = "running"
            /\ UNCHANGED cliError
       ELSE /\ cliPc' = "catch"
            /\ cliError' = CliError("TWMD_E_USAGE")
    /\ UNCHANGED <<runResult, exitCode>>
    /\ UNCHANGED <<dlvars, jobvars, scvars, guivars, restvars>>

\* printHelp, runLogin, runWhoami or runLogout returns
CommandReturns ==
    /\ cliPc = "running"
    /\ command # "download"
    /\ cliPc' = "exited"
    /\ UNCHANGED <<command, cliError, runResult, exitCode>>
    /\ UNCHANGED <<dlvars, jobvars, scvars, guivars, restvars>>

\* validateGlobalOutputFlags or the command throws
CommandThrows(error) ==
    /\ cliPc = "running"
    /\ cliPc' = "catch"
    /\ cliError' = error
    /\ UNCHANGED <<command, runResult, exitCode>>
    /\ UNCHANGED <<dlvars, jobvars, scvars, guivars, restvars>>

\* runDownload returns the JobResult of the job
DownloadReturns(jobResult) ==
    /\ cliPc = "running"
    /\ command = "download"
    /\ runResult' = jobResult
    /\ exitCode' = IF hasFinalFailures(jobResult) THEN EXIT_CODES.PARTIAL_FAILURE ELSE exitCode
    /\ cliPc' = "exited"
    /\ UNCHANGED <<command, cliError>>
    /\ UNCHANGED <<dlvars, jobvars, scvars, guivars, restvars>>

\* the catch of main()
MainCatch ==
    /\ cliPc = "catch"
    /\ exitCode' = toCliError(cliError).exitCode
    /\ cliPc' = "exited"
    /\ UNCHANGED <<command, cliError, runResult>>
    /\ UNCHANGED <<dlvars, jobvars, scvars, guivars, restvars>>

NextCli ==
    \/ \E cmd \in {"help", "login", "whoami", "logout", "download", "bogus"} : Main(cmd)
    \/ CommandReturns
    \/ \E error \in ThrownErrors : CommandThrows(error)
    \/ \E failedUsers \in 0..MaxFailed, failed \in 0..MaxFailed :
          DownloadReturns([failedUsers |-> failedUsers, failed |-> failed])
    \/ MainCatch

SpecCli == Init /\ [][NextCli]_vars

\* ================================================================= claims
Returned == dlpc = "returned"

\* C1: whenever downloadMediaBatch has returned, downloaded + failed +
\* skipped = total = the number of input items, and failureDetails has one
\* entry per failed item.
C1_ResultConservation ==
    Returned =>
        /\ result.downloaded + result.failed + result.skipped = result.total
        /\ result.total = Len(items)
        /\ Len(result.failureDetails) = result.failed

\* two workers, two items, one of each of the three outcomes over the calls
C1_Witness ==
    /\ Returned
    /\ Len(items) = 2
    /\ concurrency = 2
    /\ result.failed = 1
    /\ result.downloaded + result.skipped = 1

\* C2: the ledger is written back exactly once per call, only after every
\* worker has stopped, and no worker takes or finishes an item or adds a
\* key once the writeback has started.
C2_WritebackAfterWorkers ==
    /\ writebacks <= 1
    /\ (dlpc \in {"returned", "thrown"} /\ items # <<>> => writebacks = 1)
    /\ (WritebackStarted => WorkersStopped)
    /\ ~late

\* C3: downloadMediaBatch never throws because of one item: no worker
\* rejects, every item that was taken ends counted, and the call does not
\* end with an exception.
C3_NeverThrowsForAnItem ==
    /\ dlpc # "thrown"
    /\ \A w \in Workers : wpc[w] # "rejected"
    /\ \A p \in Positions : ended[p] # "threw"

KeysToRecord ==
    {buildDownloadedMediaKey(items[p]) :
        p \in {q \in 1..Len(items) : ended[q] \in {"downloaded", "skipped_disk"}}}

C5_LedgerHitsAreSkipped ==
    /\ \A p \in 1..Len(items) :
          (buildDownloadedMediaKey(items[p]) \in loaded /\ ended[p] # "none")
              => ended[p] = "skipped_ledger"
    /\ \A w \in Workers :
          (wcur[w] # 0 /\ ended[wcur[w]] = "skipped_ledger")
              => (wpc[w] = "settle" /\ whttp[w] = 0 /\ woutcome[w] = Skipped)
    /\ (rerun /\ Returned) =>
          /\ result.downloaded = 0
          /\ result.failed = 0
          /\ result.skipped = Len(items)

C5_Witness ==
    /\ rerun
    /\ Returned
    /\ Len(items) = 2
    /\ result.skipped = 2
    /\ ended[1] = "skipped_ledger"

\* the errors the claim allows a further attempt after
C6_Retryable(error) ==
    \/ error.status = <<>> /\ error.message \in {"fetch failed"}
    \/ error.status # <<>> /\ (error.status[1] = 429 \/ error.status[1] >= 500)

\* C6: at most retryCount + 1 fetches per item; a further fetch follows a
\* failed one only when the error is retryable; any other failure ends the
\* item as failed at once.
C6_BoundedRetries ==
    \A w \in Workers :
        /\ whttp[w] <= retryCount + 1
        /\ (wpc[w] = "backoff" => (C6_Retryable(werror[w]) /\ whttp[w] <= retryCount))
        /\ (whttp[w] >= 2 => (werror[w] # NoError /\ (wpc[w] = "fetch" => C6_Retryable(werror[w]))))
        /\ (werror[w] # NoError /\ ~C6_Retryable(werror[w]))
              => (wpc[w] = "settle" /\ woutcome[w].status = "failed")

\* a second fetch after a retryable error, and an item ended by an error
\* that is not retryable while retries were left
C6_Witness ==
    \E w, v \in Workers :
        /\ retryCount = 1
        /\ whttp[w] = 2
        /\ wpc[w] = "fetch"
        /\ werror[v] # NoError
        /\ ~C6_Retryable(werror[v])
        /\ whttp[v] = 1

\* C7: the FailureDetail of a failed item has scope media, the target path,
\* code HTTP_<n> when the last error carried status n, and attempts equal
\* to the fetches issued for the item (1 when the first fetch met a status
\* that is not retried, retryCount + 1 when retryable errors used up the
\* retries); a downloaded item has no FailureDetail.
C7_FailureDetail ==
    \A w \in Workers :
        /\ woutcome[w].status = "failed" =>
            /\ Len(woutcome[w].failure) = 1
            /\ LET detail == woutcome[w].failure[1]
                   error == werror[w]
               IN  /\ detail.scope = "media"
                   /\ detail.media.targetPath = TargetPath(items[wcur[w]])
                   /\ (error.status # <<>> => detail.code = <<"HTTP", error.status[1]>>)
                   /\ detail.attempts = whttp[w]
                   /\ (~C6_Retryable(error) /\ wattempt[w] = 0 => detail.attempts = 1)
                   /\ (C6_Retryable(error) => detail.attempts = retryCount + 1)
        /\ woutcome[w].status \in {"downloaded", "skipped"} => woutcome[w].failure = <<>>

\* a 404 that ended an item after one fetch although a retry was allowed,
\* next to an item downloaded at its second fetch
C7_Witness ==
    \E w, v \in Workers :
        /\ retryCount = 1
        /\ woutcome[w].status = "failed"
        /\ werror[w].status = <<404>>
        /\ woutcome[w].failure[1].attempts = 1
        /\ woutcome[v].status = "downloaded"
        /\ whttp[v] = 2

\* the event types yielded while the handle at position i was processed
RECURSIVE TypesAt(_, _)
TypesAt(evs, i) ==
    IF evs = <<>> THEN <<>>
    ELSE (IF Head(evs).pos = i THEN <<Head(evs).type>> ELSE <<>>) \o TypesAt(Tail(evs), i)

\* the positions of the handles that are not empty after stripping
Handles == {i \in 1..Len(users) : StripHandle(users[i]) # <<>>}

JobDone == jpc = "done"

\* the state a recogniser reaches from state q over the word
RECURSIVE Recognise(_, _, _)
Recognise(Step(_, _), q, word) ==
    IF word = <<>> THEN q ELSE Recognise(Step, Step(q, Head(word)), Tail(word))

\* user_started (warning | media_found download_progress) user_finished
\*   | user_started warning* error
C8_ClaimedStep(q, t) ==
    CASE q = "start" /\ t = "user_started" -> "started"
      [] q = "started" /\ t = "warning" -> "one_warning"
      [] q = "started" /\ t = "media_found" -> "found"
      [] q = "found" /\ t = "download_progress" -> "progress"
      [] q \in {"one_warning", "progress"} /\ t = "user_finished" -> "finished"
      [] q \in {"one_warning", "warnings"} /\ t = "warning" -> "warnings"
      [] q \in {"started", "one_warning", "warnings"} /\ t = "error" -> "failed"
      [] OTHER -> "reject"

\* user_started (warning | media_found warning)*
\*   (media_found download_progress user_finished | media_found? error)
C8_AmendedStep(q, t) ==
    CASE q = "start" /\ t = "user_started" -> "attempt"
      [] q \in {"attempt", "found"} /\ t = "warning" -> "attempt"
      [] q = "attempt" /\ t = "media_found" -> "found"
      [] q = "found" /\ t = "download_progress" -> "progress"
      [] q = "progress" /\ t = "user_finished" -> "finished"
      [] q \in {"attempt", "found"} /\ t = "error" -> "failed"
      [] OTHER -> "reject"

\* C8 as claimed: the events of every handle match
\* user_started (warning | media_found download_progress) user_finished
\* | user_started warning* error; while the job runs they are a prefix of
\* such a word.
C8_EventsMatchClaimedRegex ==
    \A i \in Handles :
        LET q == Recognise(C8_ClaimedStep, "start", TypesAt(events, i))
        IN  /\ q # "reject"
            /\ (JobDone => q \in {"finished", "failed"})

\* C8, amended: the events of every handle match
\* user_started (warning | media_found warning)*
\* (media_found download_progress user_finished | media_found? error);
\* while the job runs they are a prefix of such a word.
C8_EventsMatchAmendedRegex ==
    \A i \in Handles :
        LET q == Recognise(C8_AmendedStep, "start", TypesAt(events, i))
        IN  /\ q # "reject"
            /\ (JobDone => q \in {"finished", "failed"})

\* a handle that succeeded at its second attempt, and one whose first
\* attempt failed after media_found and whose second attempt failed too
C8_Witness ==
    /\ JobDone
    /\ \E i, j \in Handles :
        /\ TypesAt(events, i) = <<"user_started", "warning", "media_found",
                                   "download_progress", "user_finished">>
        /\ TypesAt(events, j) = <<"user_started", "media_found", "warning", "error">>

\* C9: in the events of a handle every media_found is followed by
\* download_progress and then user_finished with nothing in between, and a
\* handle has at most one media_found.
C9_FixedOrderPerHandle ==
    \A i \in Handles :
        LET types == TypesAt(events, i)
            found == {k \in 1..Len(types) : types[k] = "media_found"}
        IN  /\ Cardinality(found) <= 1
            /\ \A k \in found :
                /\ (k + 1 <= Len(types) => types[k + 1] = "download_progress")
                /\ (k + 2 <= Len(types) => types[k + 2] = "user_finished")
                /\ (JobDone => k + 2 = Len(types))
                /\ types[1] = "user_started"

CountType(type) == Cardinality({k \in 1..Len(events) : events[k].type = type})

\* C10: the events start with the one job_started; the events of the handle
\* at position i precede those of the handle at position j for i < j; on
\* normal completion the one job_finished is the last event and the
\* JobResult is returned.
C10_TotalOrder ==
    /\ (events # <<>> => events[1].type = "job_started")
    /\ CountType("job_started") <= 1
    /\ CountType("job_finished") <= 1
    /\ \A k, l \in 1..Len(events) :
        (k < l /\ events[k].pos > 0 /\ events[l].pos > 0) => events[k].pos <= events[l].pos
    /\ \A k \in 1..Len(events) :
        (1 < k /\ k < Len(events)) => events[k].pos > 0
    /\ \A k \in 1..Len(events) : events[k].type = "job_finished" => k = Len(events)
    /\ JobDone =>
        /\ Len(events) >= 2
        /\ events[Len(events)].type = "job_finished"
        /\ CountType("job_started") = 1
        /\ jresult.totalUsers = Len(users)
        /\ \A i \in 1..Len(users) : TypesAt(events, i) # <<>>

\* two handles that each ran a download with the largest concurrency
C10_Witness ==
    /\ JobDone
    /\ jobConcurrency = MaxConcurrency
    /\ Len(users) = 2
    /\ \A i \in 1..2 : /\ i \in Handles
                       /\ Len(TypesAt(events, i)) = 4

\* the user-scope FailureDetails of the JobResult, in the order appended
UserFailures == SelectSeq(jresult.failureDetails, LAMBDA d : d.scope = "user")

\* the events a failed attempt yields: warning with a username, or error
FailedAttemptEvents ==
    SelectSeq(events, LAMBDA e : \/ e.type = "error"
                                 \/ e.type = "warning" /\ e.username # <<>>)

\* the number of the attempt whose failure yielded the n-th such event
AttemptOf(n) ==
    1 + Cardinality({m \in 1..(n - 1) :
                        FailedAttemptEvents[m].pos = FailedAttemptEvents[n].pos})

\* C11: a handle gets at most userRetryCount + 1 attempts; every failed
\* attempt appends one user-scope FailureDetail whose attempts is the number
\* of that attempt; a failed attempt yields warning and is retried unless it
\* is attempt userRetryCount + 1, which yields error and counts the handle
\* failed once; the first successful attempt counts the handle succeeded
\* once and ends it.
C11_AttemptsPerHandle ==
    /\ (jpc \in {"fetch", "media_found", "downloading", "download_progress"}
            => attempt <= userRetryCount + 1)
    /\ (jpc = "backoff" => attempt <= userRetryCount)
    /\ Len(UserFailures) = Len(FailedAttemptEvents)
    /\ \A n \in 1..Len(FailedAttemptEvents) :
        /\ UserFailures[n].attempts = AttemptOf(n)
        /\ UserFailures[n].username = FailedAttemptEvents[n].username
        /\ AttemptOf(n) <= userRetryCount + 1
        /\ (FailedAttemptEvents[n].type = "error" <=> AttemptOf(n) = userRetryCount + 1)
    /\ jresult.failedUsers =
            CountType("error")
            + Cardinality({k \in 1..Len(events) : /\ events[k].type = "warning"
                                                  /\ events[k].username = <<>>})
    /\ jresult.succeededUsers = CountType("download_progress")
    /\ \A i \in Handles :
        LET types == TypesAt(events, i)
            at(t) == {k \in 1..Len(types) : types[k] = t}
        IN  /\ Cardinality(at("media_found")) <= userRetryCount + 1
            /\ Cardinality(at("download_progress")) <= 1
            /\ Cardinality(at("error")) <= 1
            /\ Cardinality(at("download_progress")) + Cardinality(at("error")) <= 1
            /\ \A k \in at("download_progress") :
                \A l \in (k + 1)..Len(types) : types[l] = "user_finished" /\ l = k + 1
            /\ \A k \in at("error") : k = Len(types)

\* the scraper fails once and then succeeds, with userRetryCount = 1
C11_Witness ==
    /\ JobDone
    /\ userRetryCount = 1
    /\ Len(users) = 1
    /\ TypesAt(events, 1) = <<"user_started", "warning", "media_found",
                               "download_progress", "user_finished">>
    /\ jresult.succeededUsers = 1
    /\ jresult.failedUsers = 0
    /\ Len(UserFailures) = 1
    /\ UserFailures[1].attempts = 1

\* the generator has ended: with the JobResult, with an exception, or by
\* the consumer's return()
JobEnded == jpc \in {"done", "threw", "abandoned"}

\* C12: when runBatchJob has instantiated or received a scraper and the run
\* has ended (normally, by an exception of scraper.initialize or of the
\* handle loop, or abandoned by the consumer), scraper.close() was called.
\* All these exits follow the load of the session.
C12_CloseOnEveryExit ==
    (JobEnded /\ scraperImpl # "none" /\ session # NoSession) => scraper = "closed"

\* C13: a scraper that runBatchJob constructed itself is the playwright
\* scraper for engine = playwright and the graphql scraper for engine =
\* graphql or no engine.
C13_EngineChoosesScraper ==
    scraperImpl \notin {"none", "injected"} =>
        scraperImpl = (IF engine = "playwright" THEN "playwright" ELSE "graphql")

\* store.load() resolved to no session or to a session without cookies
NoStoredCookies == store = NoSession \/ (store \in StoredSessions /\ store.cookies = <<>>)

\* C14 as claimed: with no session or a session without cookies,
\* runBatchJob does not fail (here: with the scraper it constructs itself).
C14_MissingSessionNeverFails ==
    (NoStoredCookies /\ scraperImpl = "graphql") => jpc # "threw"

C14_AfterLoad ==
    (NoStoredCookies /\ jpc \notin {"idle", "load"}) =>
        /\ session = buildAnonymousSession
        /\ session.cookies = <<>> /\ ~session.valid
        /\ (jpc = "threw" => InitializeCanThrow)
        /\ (scraperImpl = "graphql" => jpc \in {"initialize", "threw"})
        /\ (jpc \notin {"initialize", "threw"} =>
                /\ scraper \in {"initialized", "closed"}
                /\ events # <<>> /\ events[1].type = "job_started")
        /\ (JobDone => \A i \in 1..Len(users) : TypesAt(events, i) # <<>>)

\* C14, amended: with no session or a session without cookies, runBatchJob
\* gives scraper.initialize a synthesized anonymous session (no cookies,
\* valid = false) and never writes the store; when initialize accepts that
\* session it goes on to yield job_started and to process the handles; the
\* graphql scraper rejects it, and runBatchJob then throws before
\* job_started.
C14_AnonymousSession ==
    /\ []C14_AfterLoad
    /\ [][jpc # "idle" => store' = store]_vars

\* no session is stored, the caller's scraper accepts the anonymous
\* session and the handle is processed to its end
C14_Witness ==
    /\ store = NoSession
    /\ scraperImpl = "injected"
    /\ JobDone
    /\ TypesAt(events, 1) = <<"user_started", "media_found", "download_progress",
                               "user_finished">>

\* ---- C15
InSeq(x, seq) == \E k \in 1..Len(seq) : seq[k] = x

\* C15: every list returned by fetchUserMedia of either scraper has no two
\* items with the same (tweetId, kind, url), and every item's kind is one of
\* the caller's mediaKinds.
C15_DistinctKeysAllowedKinds ==
    spc = "returned" =>
        /\ \A i, j \in 1..Len(sresult) :
              MediaKey(sresult[i]) = MediaKey(sresult[j]) => i = j
        /\ \A i \in 1..Len(sresult) : sresult[i].kind \in sinput.mediaKinds

\* the GraphQL scraper returned after collecting two items of one key, from
\* tweets that also carry a video the caller did not ask for
C15_Witness ==
    /\ spc = "returned"
    /\ simpl = "graphql"
    /\ sinput.mediaKinds = {"image"}
    /\ InSeq(AnonymousPhotoAndVideo, shist.consumed)
    /\ \E i, j \in 1..Len(pag.collected) :
          i # j /\ MediaKey(pag.collected[i]) = MediaKey(pag.collected[j])
    /\ Len(sresult) = 2

\* ---- C16
\* C16: the list returned by the structured-API scraper has at
\* most maxTweets items.
C16_AtMostMaxTweetsItems ==
    (simpl = "graphql" /\ spc = "returned") => Len(sresult) <= sinput.maxTweets

\* ---- C17
\* C17: when every request of a fetchUserMedia failed with HTTP 401 code=32
\* and fetchUserMedia gave up, every auth triple has been used for at least
\* one request.
C17_EveryTripleTriedBeforeGivingUp ==
    (simpl = "graphql" /\ client.initialized /\ spc = "threw" /\ shist.only401) =>
        shist.used = 0..(client.authCount - 1)

AuthorIsAccount(tweet, path) ==
    IF path = "graphql" THEN tweet.author = AccountId
    ELSE ToLowerCase(tweet.author) = ToLowerCase(sinput.username)

\* C19: every item returned by the structured-API scraper comes from a
\* consumed tweet that is not a retweet, whose author, when present, is the
\* resolved account, and that carries at least one media entry.
C19_OnlyOwnOriginalTweets ==
    (simpl = "graphql" /\ spc = "returned") =>
        \A i \in 1..Len(sresult) :
            \E k \in 1..Len(shist.consumed) :
                LET tweet == shist.consumed[k]
                IN  /\ tweet.id_str = sresult[i].tweetId
                    /\ ~tweet.retweeted
                    /\ tweet.author = <<>> \/ AuthorIsAccount(tweet, shist.path)
                    /\ Len(tweet.media) >= 1

\* a page with another account's tweet and an own tweet was consumed on the
\* GraphQL path, and only the own tweet gave an item
C19_Witness ==
    /\ simpl = "graphql"
    /\ spc = "returned"
    /\ shist.path = "graphql"
    /\ InSeq(OthersPhoto, shist.consumed)
    /\ InSeq(OwnTwoSizes, shist.consumed)
    /\ Len(sresult) = 1

\* ---- C20
\* C20: the controller runs at most one download job at any time, for every
\* interleaving of concurrent POST /api/download requests.
C20_AtMostOneJob == Cardinality(children) <= 1

\* ---- C21
\* C21: when main() has settled, the exit code is 4 exactly when the download
\* command returned a JobResult with failedUsers > 0 or failed > 0, and 0
\* when a command returned otherwise; when an error was caught it is 2 for
\* an error of kind Usage, 3 for Auth and 5 for every other error.
C21_ExitCodes ==
    cliPc = "exited" =>
        /\ exitCode = 4 <=>
              /\ command = "download"
              /\ cliError = NoThrown
              /\ runResult.failedUsers > 0 \/ runResult.failed > 0
        /\ cliError = NoThrown /\ exitCode # 4 => exitCode = 0
        /\ cliError # NoThrown =>
              exitCode = CASE toCliError(cliError).code = "TWMD_E_USAGE" -> 2
                           [] toCliError(cliError).code = "TWMD_E_AUTH" -> 3
                           [] OTHER -> 5

\* a job whose scrapes all succeeded but with one failed media exits 4
C21_Witness ==
    /\ cliPc = "exited"
    /\ command = "download"
    /\ runResult = [failedUsers |-> 0, failed |-> 1]
    /\ exitCode = 4

\* ============================================ auth/session-store.ts
\* A text is a sequence of atoms: each of ";", "=", ".", " ", "\t", "\n" is
\* an atom of its own, and a word that holds none of them is one atom.
StartsWith(s, prefix) == Len(s) >= Len(prefix) /\ SubSeq(s, 1, Len(prefix)) = prefix

EndsWith(s, suffix) ==
    Len(s) >= Len(suffix) /\ SubSeq(s, Len(s) - Len(suffix) + 1, Len(s)) = suffix

Includes(s, c) == \E i \in 1..Len(s) : s[i] = c

\* String.prototype.split with a one-atom separator
RECURSIVE Split(_, _)
Split(s, sep) ==
    IF ~Includes(s, sep) THEN <<s>>
    ELSE LET i == CHOOSE k \in 1..Len(s) : s[k] = sep /\ \A j \in 1..(k - 1) : s[j] # sep
         IN  <<SubSeq(s, 1, i - 1)>> \o Split(SubSeq(s, i + 1, Len(s)), sep)

\* Array.prototype.flat of a list of lists
RECURSIVE Flat(_)
Flat(lists) == IF lists = <<>> THEN <<>> ELSE Head(lists) \o Flat(Tail(lists))

\* Array.from(new Set(list)): the first occurrence of each element, in order
RECURSIVE ArrayFromSet(_)
ArrayFromSet(list) ==
    IF list = <<>> THEN list
    ELSE LET before == ArrayFromSet(SubSeq(list, 1, Len(list) - 1))
             last == list[Len(list)]
         IN  IF \E i \in 1..Len(before) : before[i] = last THEN before
             ELSE Append(before, last)

DEFAULT_REQUIRED_COOKIE_NAMES == << <<"auth_token">>, <<"ct0">> >>

DotX == <<".", "x.com">>
DotTwitter == <<".", "twitter.com">>

normalizeCookieDomainValue(rawDomain) ==
    LET trimmed == Trim(rawDomain)
        domain == ToLowerCase(IF trimmed # <<>> /\ Head(trimmed) = "." THEN Tail(trimmed)
                              ELSE trimmed)
    IN  IF domain = <<"x.com">> \/ EndsWith(domain, DotX) THEN DotX
        ELSE IF domain = <<"twitter.com">> \/ EndsWith(domain, DotTwitter) THEN DotTwitter
        ELSE trimmed

RECURSIVE SkipWhitespace(_, _)
SkipWhitespace(s, j) ==
    IF j <= Len(s) /\ s[j] \in Whitespace THEN SkipWhitespace(s, j + 1) ELSE j

\* /;\s*Domain=([^;]+)/i matches at position i
DomainAt(s, i) ==
    /\ s[i] = ";"
    /\ LET j == SkipWhitespace(s, i + 1)
       IN  /\ j + 2 <= Len(s)
           /\ s[j] \in {"Domain", "domain"}
           /\ s[j + 1] = "="
           /\ s[j + 2] # ";"

HasDomain(s) == \E i \in 1..Len(s) : DomainAt(s, i)

\* where the group ([^;]+) that starts at j ends
GroupEnd(s, j) ==
    IF \E k \in j..Len(s) : s[k] = ";"
    THEN (CHOOSE k \in j..Len(s) : s[k] = ";" /\ \A m \in j..(k - 1) : s[m] # ";") - 1
    ELSE Len(s)

\* the match that starts at i: where it starts, and where its group starts and ends
DomainMatchAt(s, i) ==
    [first |-> i, from |-> SkipWhitespace(s, i + 1) + 2,
     to |-> GroupEnd(s, SkipWhitespace(s, i + 1) + 2)]

\* the leftmost match
DomainMatch(s) ==
    DomainMatchAt(s, CHOOSE k \in 1..Len(s) : DomainAt(s, k) /\ \A m \in 1..(k - 1) : ~DomainAt(s, m))

\* s with the match m replaced by `; Domain=${domain}`
Replaced(s, m, domain) ==
    SubSeq(s, 1, m.first - 1) \o <<";", " ", "Domain", "=">> \o domain
        \o SubSeq(s, m.to + 1, Len(s))

\* cookie.replace(/;\s*Domain=([^;]+)/i, `; Domain=${domain}`)
ReplaceDomain(s, domain) == Replaced(s, DomainMatch(s), domain)

Group(s, m) == SubSeq(s, m.from, m.to)

\* the group of the leftmost match
CapturedDomain(s) == Group(s, DomainMatch(s))

normalizeCookieDomainAttribute(cookie) ==
    IF HasDomain(cookie)
    THEN ReplaceDomain(cookie, normalizeCookieDomainValue(CapturedDomain(cookie)))
    ELSE cookie

\* a withDomain that appends the attribute also when the cookie has one
withDomainAppended(cookie, domain) == cookie \o <<";", " ", "Domain", "=">> \o domain

withDomain(cookie, domain) ==
    IF HasDomain(cookie) THEN ReplaceDomain(cookie, domain)
    ELSE cookie \o <<";", " ", "Domain", "=">> \o domain

expandCrossDomainCookies(cookie) ==
    IF ~HasDomain(cookie) THEN <<cookie>>
    ELSE LET normalizedDomain == normalizeCookieDomainValue(CapturedDomain(cookie))
         IN  IF normalizedDomain = DotX
             THEN <<withDomain(cookie, DotX), withDomain(cookie, DotTwitter)>>
             ELSE IF normalizedDomain = DotTwitter
             THEN <<withDomain(cookie, DotTwitter), withDomain(cookie, DotX)>>
             ELSE <<cookie>>

\* what one element of the list goes through: trim, the filter on empty
\* strings, normalizeCookieDomainAttribute and expandCrossDomainCookies
NormalizedCopies(cookie) ==
    IF Len(Trim(cookie)) = 0 THEN <<>>
    ELSE expandCrossDomainCookies(normalizeCookieDomainAttribute(Trim(cookie)))

normalizeCookiesForTwitterRequests(cookies) ==
    ArrayFromSet(Flat([i \in 1..Len(cookies) |-> NormalizedCopies(cookies[i])]))

parseCookieHeader(cookieHeader) ==
    LET parts == Split(cookieHeader, ";")
        trimmed == [i \in 1..Len(parts) |-> Trim(parts[i])]
    IN  SelectSeq(trimmed, LAMBDA item : Includes(item, "="))

\* line.startsWith("#HttpOnly_"): the prefix is one atom
IsHttpOnlyLine(line) == line # <<>> /\ Head(line) = "#HttpOnly_"

\* line.startsWith("#") && !line.startsWith("#HttpOnly_")
IsCommentLine(line) == line # <<>> /\ Head(line) \in {"#", "#HttpOnly_"} /\ ~IsHttpOnlyLine(line)

\* line.replace(/^#HttpOnly_/, "")
WithoutHttpOnlyPrefix(line) == IF IsHttpOnlyLine(line) THEN Tail(line) ELSE line

parseCookieLines(cookieText) ==
    LET split == Split(cookieText, "\n")
        trimmed == [i \in 1..Len(split) |-> Trim(split[i])]
        kept == SelectSeq(trimmed, LAMBDA line :
                    Len(line) > 0 /\ ~IsCommentLine(line) /\ Includes(line, "="))
    IN  [i \in 1..Len(kept) |-> WithoutHttpOnlyPrefix(kept[i])]

ToUpperCase(s) == [i \in 1..Len(s) |-> IF s[i] = "true" THEN "TRUE" ELSE s[i]]

\* the cookies one line of a tab-separated jar adds: none or one
NetscapeLine(line) ==
    LET parts == Split(WithoutHttpOnlyPrefix(line), "\t")
    IN  IF Len(parts) < 7 THEN <<>>
        ELSE IF parts[6] = <<>> \/ parts[7] = <<>> THEN <<>>
        ELSE << parts[6] \o <<"=">> \o parts[7]
                  \o <<";", " ", "Domain", "=">> \o normalizeCookieDomainValue(parts[1])
                  \o <<";", " ", "Path", "=">> \o (IF parts[3] = <<>> THEN <<"/">> ELSE parts[3])
                  \o (IF ToUpperCase(parts[4]) = <<"TRUE">> THEN <<";", " ", "Secure">> ELSE <<>>)
                  \o (IF IsHttpOnlyLine(line) THEN <<";", " ", "HttpOnly">> ELSE <<>>) >>

parseNetscapeCookies(cookieText) ==
    LET split == Split(cookieText, "\n")
        trimmed == [i \in 1..Len(split) |-> Trim(split[i])]
        lines == SelectSeq(trimmed, LAMBDA line : Len(line) > 0 /\ ~IsCommentLine(line))
    IN  Flat([i \in 1..Len(lines) |-> NetscapeLine(lines[i])])

\* the list parseCookies hands to normalizeCookiesForTwitterRequests
ParsedFrom(text) ==
    IF Includes(text, "\t") /\ Len(parseNetscapeCookies(text)) > 0 THEN parseNetscapeCookies(text)
    ELSE IF Len(parseCookieLines(text)) > 1 THEN parseCookieLines(text)
    ELSE parseCookieHeader(text)

parseCookies(cookieText) ==
    IF Trim(cookieText) = <<>> THEN <<>>
    ELSE normalizeCookiesForTwitterRequests(ParsedFrom(Trim(cookieText)))

\* <<>> stands for null
extractCookieName(cookie) ==
    LET firstSegment == Trim(Head(Split(cookie, ";")))
    IN  IF firstSegment = <<>> THEN <<>>
        ELSE IF ~Includes(firstSegment, "=") \/ Head(firstSegment) = "=" THEN <<>>
        ELSE Trim(Head(Split(firstSegment, "=")))

\* a validation that reports every required name once one is missing
validateRequiredCookiesNamingAll(cookies, requiredCookieNames) ==
    LET names == {ToLowerCase(extractCookieName(cookies[i])) : i \in 1..Len(cookies)} \ {<<>>}
        valid == \A i \in 1..Len(requiredCookieNames) : ToLowerCase(requiredCookieNames[i]) \in names
    IN  [valid |-> valid, missing |-> IF valid THEN <<>> ELSE requiredCookieNames,
         cookieCount |-> Len(cookies)]

validateRequiredCookies(cookies, requiredCookieNames) ==
    LET names == {ToLowerCase(extractCookieName(cookies[i])) : i \in 1..Len(cookies)} \ {<<>>}
        missing == SelectSeq(requiredCookieNames,
                             LAMBDA requiredName : ToLowerCase(requiredName) \notin names)
    IN  [valid |-> missing = <<>>, missing |-> missing, cookieCount |-> Len(cookies)]


\* JSON.stringify(data, null, 2): the text of an object with the data's members
JSONStringify(data) == FileOf("object", data)

\* JSON.parse(raw) returns without a SyntaxError
\* a parser that takes every text
JSONParsesAnything(raw) == TRUE

JSONParses(raw) == raw.syntax \in {"object", "null"}

JSONParse(raw) ==
    IF raw.syntax = "object" THEN Value("session", raw.data, FALSE)
    ELSE Value("null", NoData, FALSE)

\* the inputs of loginWithCookies
HeaderMissingCt0 == <<"auth_token", "=", "A", ";", " ", "dummy", "=", "1">>
HeaderComplete == <<" ", "AUTH_TOKEN", "=", "A", ";", " ", "Ct0", "=", "B">>
HeaderTwice ==
    <<"auth_token", "=", "A", ";", " ", "auth_token", "=", "B", ";", " ", "ct0", "=", "C">>
HeaderNameless == <<"=", "A", ";", "ct0", "=", "B">>
HeaderOnlyCt0 == <<"ct0", "=", "B">>
HeaderNeither == <<"dummy", "=", "1">>
Blank == <<" ">>
NoCookieText == <<"nonsense">>
LinesTwoDomains ==
    <<"auth_token", "=", "A", ";", " ", "Domain", "=", ".", "x.com", "\n",
      "ct0", "=", "B", ";", "domain", "=", "api", ".", "twitter.com">>
LinesSameNameSameDomain ==
    <<"auth_token", "=", "A", ";", " ", "Domain", "=", ".", "x.com", "\n",
      "auth_token", "=", "B", ";", " ", "Domain", "=", "X.COM", "\n",
      "#", "=", "comment", "\n",
      "ct0", "=", "C">>
NetscapeJar ==
    <<".", "x.com", "\t", "TRUE", "\t", "/", "\t", "true", "\t", "0", "\t", "auth_token", "\t", "A",
      "\n", "#", " ", "a", "\t", "comment", "\n",
      "#HttpOnly_", ".", "twitter.com", "\t", "TRUE", "\t", "/", "\t", "FALSE", "\t", "0", "\t",
      "ct0", "\t", "B">>

CookieTexts ==
    {HeaderMissingCt0, HeaderComplete, HeaderTwice, HeaderNameless, HeaderOnlyCt0, HeaderNeither,
     Blank, NoCookieText, LinesTwoDomains, LinesSameNameSameDomain, NetscapeJar}

NotGiven == [given |-> FALSE, names |-> <<>>]
Given(names) == [given |-> TRUE, names |-> names]

\* store.exists()
StoreExists ==
    /\ authOp' = [NoOp EXCEPT !.op = "exists",
                              !.returned = Value("boolean", NoData, sessionFile # NoFile)]
    /\ UNCHANGED <<sessionFile, clock, expected>>
    /\ UNCHANGED <<dlvars, jobvars, scvars, guivars, clivars, fnvars>>

\* store.load()
StoreLoad ==
    /\ authOp' =
          IF sessionFile = NoFile
          THEN [NoOp EXCEPT !.op = "load", !.returned = Value("null", NoData, FALSE)]
          ELSE IF JSONParses(sessionFile)
          THEN [NoOp EXCEPT !.op = "load", !.returned = JSONParse(sessionFile)]
          ELSE [NoOp EXCEPT !.op = "load", !.threw = "SyntaxError"]
    /\ UNCHANGED <<sessionFile, clock, expected>>
    /\ UNCHANGED <<dlvars, jobvars, scvars, guivars, clivars, fnvars>>

\* store.save(data)
StoreSave(data) ==
    /\ sessionFile' = JSONStringify(data)
    /\ expected' = FileOf("saved", data)
    /\ authOp' = [NoOp EXCEPT !.op = "save", !.saves = 1]
    /\ UNCHANGED clock
    /\ UNCHANGED <<dlvars, jobvars, scvars, guivars, clivars, fnvars>>

\* store.clear()
StoreClear ==
    /\ sessionFile' = NoFile
    /\ expected' = NoFile
    /\ authOp' = [NoOp EXCEPT !.op = "clear"]
    /\ UNCHANGED clock
    /\ UNCHANGED <<dlvars, jobvars, scvars, guivars, clivars, fnvars>>

\* something else than the store writes the file that load() reads
ForeignWrite(raw) ==
    /\ sessionFile' = raw
    /\ expected' = FileOf("foreign", NoData)
    /\ authOp' = [NoOp EXCEPT !.op = "foreign"]
    /\ UNCHANGED clock
    /\ UNCHANGED <<dlvars, jobvars, scvars, guivars, clivars, fnvars>>

StrictOf(strict) == IF strict = "undefined" THEN TRUE ELSE strict = "true"

RequiredOf(requiredCookieNames) ==
    IF requiredCookieNames.given THEN requiredCookieNames.names ELSE DEFAULT_REQUIRED_COOKIE_NAMES

\* loginWithCookies once `cookies` is computed; `call` records the inputs
LoginWith(cookies, validation, call) ==
    /\ clock < MaxLogins
    /\ IF Len(cookies) = 0
       THEN /\ authOp' = [call EXCEPT !.threw = "No valid cookie found from input."]
            /\ UNCHANGED <<sessionFile, clock, expected>>
       ELSE IF call.strict /\ ~validation.valid
       THEN /\ authOp' = [call EXCEPT !.threw = "Missing required cookies",
                                      !.missing = validation.missing]
            /\ UNCHANGED <<sessionFile, clock, expected>>
       ELSE /\ clock' = clock + 1
            /\ sessionFile' = JSONStringify(StoredSession(cookies, clock + 1, TRUE))
            /\ expected' = FileOf("saved", StoredSession(cookies, clock + 1, TRUE))
            /\ authOp' = [call EXCEPT
                            !.returned = Value("session", StoredSession(cookies, clock + 1, TRUE), FALSE),
                            !.saves = 1]
    /\ UNCHANGED <<dlvars, jobvars, scvars, guivars, clivars, fnvars>>

loginWithCookies(cookieText, strict, requiredCookieNames) ==
    \E cookies \in {normalizeCookiesForTwitterRequests(parseCookies(cookieText))} :
        LoginWith(cookies,
                  validateRequiredCookies(cookies, RequiredOf(requiredCookieNames)),
                  [NoOp EXCEPT !.op = "login", !.text = cookieText, !.strict = StrictOf(strict),
                               !.required = RequiredOf(requiredCookieNames), !.cookies = cookies])

ForeignFiles == {FileOf("null", NoData), FileOf("truncated", NoData), FileOf("empty", NoData)}

NextAuth ==
    \/ StoreExists
    \/ StoreLoad
    \/ \E data \in {NoData, StoredSession(<<HeaderOnlyCt0>>, 0, TRUE)} : StoreSave(data)
    \/ StoreClear
    \/ \E raw \in ForeignFiles : ForeignWrite(raw)
    \/ \E cookieText \in CookieTexts, strict \in {"undefined", "true", "false"},
          requiredCookieNames \in {NotGiven, Given(<< <<"ct0">> >>)} :
          loginWithCookies(cookieText, strict, requiredCookieNames)

SpecAuth == Init /\ [][NextAuth]_vars


\* ------------------------------------------- the normalizer on its own
\* cookie strings as a caller may hand them to normalizeCookiesForTwitterRequests
RawCookies ==
    { <<"a", "=", "1">>,
      <<" ", "a", "=", "1", ";", " ", "Domain", "=", "x.com", " ">>,
      <<"a", "=", "1", ";", "domain", "=", ".", "X.COM", ";", " ", "Path", "=", "/">>,
      <<"a", "=", "1", ";", " ", "Domain", "=", "api", ".", "twitter.com">>,
      <<"a", "=", "1", ";", " ", "Domain", "=", ".", "twitter.com">>,
      <<"a", "=", "2", ";", " ", "Domain", "=", ".", "twitter.com">>,
      <<"a", "=", "1", ";", " ", "Domain", "=", ".", "x.com", ";", " ", "Domain", "=", "twitter.com">>,
      <<"b", "=", "2", ";", " ", "Domain", "=", " ", ".", "Example.com", " ", ";", " ", "Secure">>,
      <<"b", "=", "2", ";", " ", "Domain", "=", ";", " ", "Domain", "=", "x.com">>,
      <<" ">> }

ApplyNormalizeCookies(cookies) ==
    /\ applied.fn = "none"
    /\ applied' = [fn |-> "normalizeCookiesForTwitterRequests", input |-> cookies,
                   output |-> normalizeCookiesForTwitterRequests(cookies)]
    /\ UNCHANGED <<dlvars, jobvars, scvars, guivars, clivars, authvars>>

NextNormalize == \E cookies \in SeqsUpTo(RawCookies, MaxCookies) : ApplyNormalizeCookies(cookies)

SpecNormalize == Init /\ [][NextNormalize]_vars


\* ------------------------------------------------------------ C22 .. C26
\* the name of a cookie: what stands before its first "=", lowercased
CookieNameOf(cookie) == ToLowerCase(Trim(Head(Split(cookie, "="))))

\* the normalized domain a cookie carries (<<>>: it carries none)
CookieDomainOf(cookie) ==
    IF HasDomain(cookie) THEN normalizeCookieDomainValue(CapturedDomain(cookie)) ELSE <<>>

\* the required names no cookie of the list has
Lacking(cookies) ==
    {n \in {<<"auth_token">>, <<"ct0">>} : \A i \in 1..Len(cookies) : CookieNameOf(cookies[i]) # n}

Named(missing) == {missing[i] : i \in 1..Len(missing)}

StrictDefaultLogin(op) ==
    op.op = "login" /\ op.strict /\ op.required = DEFAULT_REQUIRED_COOKIE_NAMES

\* C22 as claimed: a strict loginWithCookies whose parsed cookies lack
\* auth_token or ct0 is rejected with an error that names exactly the missing
\* names, and store.save is not called.
C22_RejectsNamingTheMissing ==
    StrictDefaultLogin(authOp) /\ Lacking(authOp.cookies) # {} =>
        /\ authOp.threw = "Missing required cookies"
        /\ Named(authOp.missing) = Lacking(authOp.cookies)
        /\ authOp.saves = 0

RejectedLogin ==
    /\ authOp'.saves = 0
    /\ sessionFile' = sessionFile
    /\ IF authOp'.cookies = <<>>
       THEN authOp'.threw = "No valid cookie found from input." /\ authOp'.missing = <<>>
       ELSE /\ authOp'.threw = "Missing required cookies"
            /\ Named(authOp'.missing) = Lacking(authOp'.cookies)

\* C22: a strict loginWithCookies whose parsed cookies lack auth_token or ct0
\* (compared case-insensitively on the name before the first "=") is
\* rejected without a call of store.save and with the session file left as
\* it was; the error names exactly the missing names when at least one
\* cookie was parsed, and is "No valid cookie found from input." when none was.
C22_StrictRejectsWithoutSaving ==
    [][StrictDefaultLogin(authOp') /\ Lacking(authOp'.cookies) # {} => RejectedLogin]_vars

\* 'auth_token=A; dummy=1' is rejected for ct0 while an earlier session stays stored
C22_Witness ==
    /\ StrictDefaultLogin(authOp)
    /\ authOp.text = HeaderMissingCt0
    /\ authOp.threw = "Missing required cookies"
    /\ authOp.missing = << <<"ct0">> >>
    /\ expected.syntax = "saved"
    /\ sessionFile = JSONStringify(expected.data)

\* C23: loginWithCookies with strict=false on 'auth_token=A; dummy=1' succeeds
\* and saves the session, and the saved cookies hold, for each of the two
\* names, a copy for each of the two platform domains.
C23_LooseLoginExpandsBothNames ==
    authOp.op = "login" /\ authOp.text = HeaderMissingCt0 /\ ~authOp.strict =>
        /\ authOp.threw = "none"
        /\ authOp.saves = 1
        /\ sessionFile.syntax = "object"
        /\ \A n \in {<<"auth_token">>, <<"dummy">>}, d \in {DotX, DotTwitter} :
              \E i \in 1..Len(sessionFile.data.cookies) :
                  /\ CookieNameOf(sessionFile.data.cookies[i]) = n
                  /\ CookieDomainOf(sessionFile.data.cookies[i]) = d

\* C24: normalizeCookiesForTwitterRequests is idempotent: applied to its own
\* output it returns the same elements in the same order.
C24_NormalizeIdempotent ==
    applied.fn = "normalizeCookiesForTwitterRequests" =>
        normalizeCookiesForTwitterRequests(applied.output) = applied.output

\* a padded x.com cookie and a twitter.com cookie of another value: four
\* copies come out, none of them the input
C24_Witness ==
    /\ applied.fn = "normalizeCookiesForTwitterRequests"
    /\ applied.input = << <<" ", "a", "=", "1", ";", " ", "Domain", "=", "x.com", " ">>,
                          <<"a", "=", "2", ";", " ", "Domain", "=", ".", "twitter.com">> >>
    /\ Len(applied.output) = 4
    /\ applied.output[1] = <<"a", "=", "1", ";", " ", "Domain", "=", ".", "x.com">>

\* C25: in the session loginWithCookies produces, no two cookies share the
\* same (name, normalized domain).
C25_NoTwoCookiesShareNameAndDomain ==
    authOp.op = "login" /\ authOp.threw = "none" =>
        \A i, j \in 1..Len(authOp.returned.data.cookies) :
            i # j =>
                <<CookieNameOf(authOp.returned.data.cookies[i]),
                  CookieDomainOf(authOp.returned.data.cookies[i])>>
                # <<CookieNameOf(authOp.returned.data.cookies[j]),
                    CookieDomainOf(authOp.returned.data.cookies[j])>>

extname(pathname) ==
    LET base == Split(pathname, "/")[Len(Split(pathname, "/"))]
        dots == {i \in 1..Len(base) : base[i] = "."}
    IN  IF dots = {} \/ dots = {1} THEN <<>>
        ELSE SubSeq(base, CHOOSE i \in dots : \A j \in dots : j <= i, Len(base))

\* what `new URL(url)` yields for https://pbs.twimg.com<pathname>?format=<format>
UrlOfPath(pathname, format) ==
    [parses |-> TRUE, originPath |-> "https://pbs.twimg.com/...",
     ext |-> IF extname(pathname) = <<>> THEN <<>> ELSE Tail(extname(pathname)),
     format |-> format, search |-> ""]

NotAUrl == [parses |-> FALSE, originPath |-> "", ext |-> <<>>, format |-> <<>>, search |-> ""]

Pathnames ==
    { <<"/", "m", "/", "a", ".", "J", "P", "G">>,
      <<"/", "m", "/", "a", ".", "j", ":", "p", "g">>,
      <<"/", "m", ".", "p", "/", "a", ".", "p", "*", "g">>,
      <<"/", "m", ".", "p", "/", "a">>,
      <<"/", "m", "/", ".", "a">> }

Formats == {<<>>, <<"P", "N", "G", " ">>, <<"j", ":">>}

PathParts == {<<"7">>, <<"7", ":", "1">>, <<" ">>, <<"\t", "*">>}

MediaItems ==
    { MediaItem(<<"a">>, tweetId, id, kind, url) :
        tweetId \in PathParts, id \in PathParts, kind \in {"image", "gif", "video"},
        url \in {UrlOfPath(pathname, format) : pathname \in Pathnames, format \in Formats}
                  \cup {NotAUrl} }

ApplyBuildMediaFilename(item) ==
    /\ applied.fn = "none"
    /\ applied' = [fn |-> "buildMediaFilename", input |-> item, output |-> buildMediaFilename(item)]
    /\ UNCHANGED <<dlvars, jobvars, scvars, guivars, clivars, authvars>>

NextFilename == \E item \in MediaItems : ApplyBuildMediaFilename(item)

SpecFilename == Init /\ [][NextFilename]_vars

\* C27: the file name buildMediaFilename returns holds none of the characters
\* < > : " / \ | ? * and no control character, whatever the MediaItem is.
C27_FilenameHasNoForbiddenCharacter ==
    applied.fn = "buildMediaFilename" =>
        \A i \in 1..Len(applied.output) : applied.output[i] \notin WINDOWS_FORBIDDEN


\* C28: after a sweep that saw an authentication failure, requestJsonFromBases
\* takes the first recovery that succeeds of: next auth triple, refresh of
\* ct0, next bearer token; it refreshes the web metadata only when none of
\* these succeeded, at most once per request; and a request makes at most 3
\* passes over its bases.
C28_RecoveryOrder ==
    /\ shist.recovery.sawAuthFailure /\ shist.recovery.authLeft => shist.recovery.step = "auth"
    /\ shist.recovery.sawAuthFailure /\ ~shist.recovery.authLeft /\ shist.recovery.csrf =>
          shist.recovery.step = "csrf"
    /\ /\ shist.recovery.sawAuthFailure
       /\ ~shist.recovery.authLeft /\ ~shist.recovery.csrf /\ shist.recovery.bearerLeft
       => shist.recovery.step = "bearer"
    /\ shist.recovery.step \in {"auth", "csrf", "bearer"} => shist.recovery.sawAuthFailure
    /\ shist.recovery.step = "meta" =>
          /\ shist.recovery.metaLeft
          /\ ~(/\ shist.recovery.sawAuthFailure
               /\ \/ shist.recovery.authLeft
                  \/ shist.recovery.csrf
                  \/ shist.recovery.bearerLeft)
    /\ shist.maxMetaCalls <= 1
    /\ shist.maxSweeps <= 3

\* a third pass was made, the metadata was refreshed once, and the last failed
\* sweep went on to the next bearer token, for lack of an auth triple and of
\* a new ct0
C28_Witness ==
    /\ shist.maxSweeps = 3
    /\ shist.maxMetaCalls = 1
    /\ shist.recovery.step = "bearer"
    /\ shist.recovery.sawAuthFailure

\* C29: one requestGraphql call sends at most 4 requests; it asks again only
\* when the failure names at least one flag that its features object has not,
\* and then sends the features with each such flag added (as false);
\* otherwise it rethrows.
C29_FeatureLoop ==
    /\ shist.maxRequests <= 4
    /\ shist.catch.caught /\ shist.catch.retried =>
          /\ shist.catch.missing \ shist.catch.features # {}
          /\ shist.catch.sent = shist.catch.features \cup shist.catch.missing
          /\ AdaptiveFeatures(req.off) = shist.catch.sent
          /\ req.fAttempt = shist.catch.attempt + 1
    /\ shist.catch.caught /\ ~shist.catch.retried =>
          \/ shist.catch.missing \subseteq shist.catch.features
          \/ shist.catch.attempt = 3

\* the fourth request of a call failed naming one more flag, and was the last
C29_Witness ==
    /\ shist.maxRequests = 4
    /\ shist.catch.caught
    /\ ~shist.catch.retried
    /\ shist.catch.attempt = 3
    /\ shist.catch.missing \ shist.catch.features # {}

\* C30: a flag that a request of the scraper has learned is sent by the first
\* attempt of every later GraphQL request of the same scraper.
C30_LearnedFlagsPersist ==
    spc \in {"resolve", "gqlpage"} /\ req.fAttempt = 0 =>
        shist.learned \subseteq AdaptiveFeatures(req.off)


\* ---- C31
\* every request that is awaited is answered or fails
NextPagination ==
    \/ \E srv \in {ShortServer, LongServer} : GraphqlInitialize(srv, 1)
    \/ \E maxTweets \in 1..MaxTweets :
          server = ShortServer /\ FetchUserMedia(RawUsername, maxTweets, {"image"})
    \/ server = LongServer /\ FetchUserMedia(RawUsername, ManyTweets, {"image"})
    \/ SweepAnswered
    \/ SweepAllFailed

SpecPagination ==
    Init /\ [][NextPagination]_vars /\ WF_vars(SweepAnswered \/ SweepAllFailed)

\* the loop leaves after this page: the page has no tweets, the count is
\* exhausted, the page has no cursor or the cursor of the request (no
\* numeric last id on the legacy path), or it was the 30th page
LastPageStops(p) ==
    \/ p.tweets = 0
    \/ p.remaining <= 0
    \/ p.path = "graphql" /\ p.next \in {"none", "same"}
    \/ p.path = "v11" /\ ~IsDigits(p.lastId)
    \/ p.guard = 30

PaginationStops ==
    /\ pag.guard <= 30
    /\ shist.lastPage.path # "none" =>
          /\ LastPageStops(shist.lastPage) => spc = "returned"
          /\ spc \in {"gqlpage", "v11page"} =>
                /\ pag.guard = shist.lastPage.guard + 1
                /\ pag.remaining = shist.lastPage.remaining
          /\ spc = "v11page" => pag.maxId = ToString(BigInt(shist.lastPage.lastId) - 1)

\* C31: the pagination of fetchUserMedia of the structured-API scraper ends,
\* whatever the pages are: a path fetches at most 30 pages, and it returns
\* right after a page without tweets, a page that exhausts the count, a
\* GraphQL page without cursor or with the cursor of its request, and the
\* 30th page; otherwise it asks for the next page, on the legacy path with
\* max_id = the last id minus 1.
C31_PaginationTerminates ==
    /\ []PaginationStops
    /\ (spc \in {"resolve", "gqlpage", "v11page"}) ~> (spc \in {"returned", "threw"})

C31_Witness ==
    /\ spc = "returned"
    /\ shist.lastPage.guard = 30
    /\ shist.lastPage.remaining > 0
    /\ shist.lastPage.tweets > 0
    /\ shist.lastPage.path = "v11"
    /\ pag.maxId = "5"


\* ---- C32
\* the workers downloadMediaBatch has started, and those holding position p
Started == {w \in Workers : wpc[w] # "idle"}
Holders(p) == {w \in Workers : wcur[w] = p}
Queued(p) == {i \in 1..Len(queue) : queue[i] = p}

C33_RoundsStopEarly ==
    (simpl = "playwright" /\ spc = "collect" /\ pw.round > 0) =>
        /\ pw.round < 14
        /\ pw.unchangedRounds < 3
        /\ Len(pw.collected) < sinput.maxTweets


\* ---- C34
NextClose ==
    \/ GraphqlInitialize(PlainServer, 1)
    \/ FetchUserMedia(RawUsername, 1, {"image"})
    \/ SweepAnswered
    \/ SweepAllFailed
    \/ GraphqlClose
    \/ PlaywrightInitialize
    \/ PlaywrightFetchUserMedia(RawUsername, 1, {"image"})
    \/ PlaywrightRound
    \/ PlaywrightUrlThrows
    \/ PlaywrightClose

SpecClose == Init /\ [][NextClose]_vars

\* C34: no close() of a scraper calls close() on a browser, page or context
\* that is already closed, and after a close(), until the next initialize,
\* the scraper is not initialized and holds no page, context, browser or
\* client, so that fetchUserMedia only throws its not-initialized error.
\* (close() has no throwing path in either class.)
C34_CloseIsIdempotent ==
    /\ ~client.touchedReleased
    /\ client.closes > 0 =>
          /\ ~client.initialized
          /\ ~client.hasClient
          /\ client.page = "null" /\ client.context = "null" /\ client.browser = "null"
          /\ spc \in {"closed", "threw"}


\* ---- C35
\* the body GET /api/status answers with
StatusBody == [running |-> runningJob # 0]

\* C35: GET /api/status answers running = true exactly while a child that
\* POST /api/download has spawned has not closed; in particular the close of
\* one child does not make it false while another child is alive, and a
\* SIGINT sent by POST /api/stop leaves it true until the child closes.
C35_RunningWhileChildAlive == StatusBody.running <=> children # {}


\* ---- C36
\* the positions at which an event of the type was yielded
PositionsOf(type) == {events[k].pos : k \in {n \in 1..Len(events) : events[n].type = type}}
EventsAt(type, i) == {k \in 1..Len(events) : events[k].type = type /\ events[k].pos = i}

\* C36: when runBatchJob has returned its JobResult, totalUsers is the
\* number of input handles and equals succeededUsers + failedUsers; an
\* entry that is empty after stripping yielded one warning and no
\* user_started and is among the failed; every other handle ended with one
\* user_finished and is among the succeeded, or with one error and is among
\* the failed, never both.
C36_UsersAddUp ==
    JobDone =>
        /\ jresult.totalUsers = Len(users)
        /\ jresult.succeededUsers + jresult.failedUsers = jresult.totalUsers
        /\ jresult.succeededUsers = Cardinality(PositionsOf("user_finished"))
        /\ jresult.failedUsers =
              Cardinality((1..Len(users)) \ Handles) + Cardinality(PositionsOf("error"))
        /\ \A i \in (1..Len(users)) \ Handles :
              TypesAt(events, i) = <<"warning">>
        /\ \A i \in Handles :
              /\ Cardinality(EventsAt("user_started", i)) = 1
              /\ Cardinality(EventsAt("user_finished", i))
                    + Cardinality(EventsAt("error", i)) = 1

C36_Witness ==
    /\ JobDone
    /\ Len(users) = 2
    /\ userRetryCount = 1
    /\ StripHandle(users[1]) = <<>>
    /\ TypesAt(events, 2) = <<"user_started", "warning", "error">>
    /\ jresult.failedUsers = 2
    /\ jresult.succeededUsers = 0


\* ---- C37
NoProgress == [total |-> 0, downloaded |-> 0, failed |-> 0, skipped |-> 0]

\* the component-wise sum of the progress of the events of the type
RECURSIVE SumProgress(_, _)
SumProgress(evs, type) ==
    IF evs = <<>> THEN NoProgress
    ELSE LET rest == SumProgress(Tail(evs), type)
             p == IF Head(evs).type = type THEN Head(evs).progress[1] ELSE NoProgress
         IN  [total |-> p.total + rest.total, downloaded |-> p.downloaded + rest.downloaded,
              failed |-> p.failed + rest.failed, skipped |-> p.skipped + rest.skipped]

\* C37: when runBatchJob has returned its JobResult, totalMedia = downloaded
\* + failed + skipped, and the progress of job_finished is the component-wise
\* sum of the progress of the download_progress events.
C37_MediaAddUp ==
    JobDone =>
        /\ jresult.totalMedia = jresult.downloaded + jresult.failed + jresult.skipped
        /\ SumProgress(events, "job_finished") = SumProgress(events, "download_progress")


\* ---- C38
NextRotation ==
    \/ \E authCount \in {1, 3} : GraphqlInitialize(RotationServer, authCount)
    \/ \E authCount \in {1, 3} : GraphqlReinitialize(authCount)
    \/ FetchUserMedia(RawUsername, 1, {"image"})
    \/ SweepAnswered
    \/ SweepAllFailed
    \/ GraphqlClose

SpecRotation == Init /\ [][NextRotation]_vars

\* the indexes point inside their lists
IndexesInside ==
    client.hasClient =>
        /\ client.authCandidateIndex < client.authCount
        /\ client.bearerTokenIndex < client.bearerCount

\* no triple the current fetchUserMedia has sent a request with lies beyond the
\* current one
NoneUsedAgain == \A used \in shist.used : used <= client.authCandidateIndex

\* a step of initialize or close
Initializes == spc' = "ready" \/ spc' = "closed"

\* this step has called refreshWebMetadata, which found bearer tokens
ReplacesBearers == shist'.recovery.step = "meta" /\ shist'.recovery.tokens > 0

KeysOnFile == ledgerFile.mediaKeys

Downloading(w) == wpc[w] \in {"fetch", "write", "backoff"}

\* C40: no two workers are inside downloadWithRetries for the same target
\* path at the same time, and an item counted skipped had its key in the
\* ledger set or has under its target path a file holding the body of its
\* own url.
C40_OneWorkerPerTargetPath ==
    /\ \A w1 \in Workers : \A w2 \in Workers \ {w1} :
          (Downloading(w1) /\ Downloading(w2)) =>
              TargetPath(items[wcur[w1]]) # TargetPath(items[wcur[w2]])
    /\ \A p \in 1..Len(items) :
          /\ ended[p] = "skipped_ledger" => buildDownloadedMediaKey(items[p]) \in mediaKeys
          /\ ended[p] = "skipped_disk" =>
                [path |-> TargetPath(items[p]), body |-> items[p].url] \in files

====
